---- MODULE Spec2Model ----
(***************************************************************************)
(* Model of "Test Programs/merge_kaggle_phone_csvs.py": the merger of      *)
(* heterogeneous phone CSV exports into one JSON document per brand.       *)
(*                                                                         *)
(* Python strings are modelled as sequences of one-character strings, so   *)
(* that strip(), lower(), re.sub, re.match and SequenceMatcher are         *)
(* computed character by character as the code computes them.             *)
(* Python values are records [t, s, n, items]:                             *)
(*    t = "str"   : the string s                                           *)
(*    t = "int"   : the integer n                                          *)
(*    t = "float" : the finite float n.s (s: the fraction digits without   *)
(*                  trailing zeros)                                        *)
(*    t = "nan"   : float('nan'), what pandas yields for an empty cell     *)
(*    t = "none"  : None                                                   *)
(*    t = "list"  : the list items                                         *)
(***************************************************************************)
EXTENDS Integers, Sequences, FiniteSets, TLC

VARIABLES
    existing,     \* merge_attributes: the entity's attribute dict (key -> value)
    log,          \* merge_attributes: the incoming dicts merged so far, in order
    resolved,     \* stable_phone_id: the (brand, model, id) triples computed so far
    colname,      \* best_canonical: the raw column name being mapped
    cpc,          \* best_canonical: position in the function
    visited,      \* best_canonical: aliases of ALIAS_TO_CANON already iterated
    best,         \* best_canonical: local variable best
    best_score,   \* best_canonical: local variable best_score, a fraction <<num, den>>
    key,          \* row_to_attributes: the attribute key chosen for the column
    results,      \* keys obtained for colname by the runs completed so far
    runs,         \* number of completed runs (processes) for colname
    fold_case,    \* the file system of OUTPUT_DIR ignores the case of file names
    disk,         \* OUTPUT_DIR: file name -> content of the brand's JSON file
    LOG_FILE,     \* the lines log() wrote since main removed the file
    csv_files,    \* main: the files of the loop over csv_files not yet processed
    df,           \* process_csv_file: the table read, its identity columns, the rows left
    bpc,          \* position of the batch: in no run, in main's loop, in the row loop, ended
    ident,        \* row_to_attributes: its locals and result for the last row
    hist,         \* the rows upserted so far (loaded, merged and saved), in order
    faults,       \* number of runs so far that ended by an exception or were killed
    batch_runs,   \* number of runs of main started so far
    writers       \* processes running the row cycle side by side: position and locals

\* the variables of the batch: main, process_csv_file and the JSON files,
\* and those of the processes that run the row cycle side by side
batch == <<fold_case, disk, LOG_FILE, csv_files, df, bpc, ident, hist, faults, batch_runs,
           writers>>

vars == <<existing, log, resolved, colname, cpc, visited, best, best_score, key, results, runs,
          fold_case, disk, LOG_FILE, csv_files, df, bpc, ident, hist, faults, batch_runs,
          writers>>

-----------------------------------------------------------------------------
(* Characters and the str methods the code uses                            *)

UpperCase == <<"A","B","C","D","E","F","G","H","I","J","K","L","M",
               "N","O","P","Q","R","S","T","U","V","W","X","Y","Z">>

LowerCase == <<"a","b","c","d","e","f","g","h","i","j","k","l","m",
               "n","o","p","q","r","s","t","u","v","w","x","y","z">>

Digits == <<"0","1","2","3","4","5","6","7","8","9">>

Range(f) == {f[i] : i \in DOMAIN f}

IsDigit(c) == c \in Range(Digits)

IsLowerAlnum(c) == c \in Range(LowerCase) \/ IsDigit(c)

IsSpace(c) == c = " "

\* str.lower() on one character
lower_char(c) ==
    IF c \in Range(UpperCase)
    THEN LowerCase[CHOOSE i \in DOMAIN UpperCase : UpperCase[i] = c]
    ELSE c

\* str.lower()
lower(s) == [i \in 1..Len(s) |-> lower_char(s[i])]

RECURSIVE lstrip(_)
lstrip(s) == IF s # <<>> /\ IsSpace(Head(s)) THEN lstrip(Tail(s)) ELSE s

RECURSIVE rstrip(_)
rstrip(s) ==
    IF s # <<>> /\ IsSpace(s[Len(s)]) THEN rstrip(SubSeq(s, 1, Len(s) - 1)) ELSE s

\* str.strip()
strip(s) == rstrip(lstrip(s))

\* str.replace(c, "")
RECURSIVE remove_char(_, _)
remove_char(s, c) ==
    IF s = <<>> THEN <<>>
    ELSE IF Head(s) = c THEN remove_char(Tail(s), c)
    ELSE <<Head(s)>> \o remove_char(Tail(s), c)

-----------------------------------------------------------------------------
(* Python values                                                            *)

StrV(s) == [t |-> "str", s |-> s, n |-> 0, items |-> <<>>]

IntV(n) == [t |-> "int", s |-> <<>>, n |-> n, items |-> <<>>]

FloatV(n, frac) == [t |-> "float", s |-> frac, n |-> n, items |-> <<>>]

NaN == [t |-> "nan", s |-> <<>>, n |-> 0, items |-> <<>>]

None == [t |-> "none", s |-> <<>>, n |-> 0, items |-> <<>>]

ListV(items) == [t |-> "list", s |-> <<>>, n |-> 0, items |-> items]

\* str(n) for an int n >= 0
RECURSIVE int_to_str(_)
int_to_str(n) ==
    IF n < 10 THEN <<Digits[n + 1]>>
    ELSE int_to_str(n \div 10) \o <<Digits[(n % 10) + 1]>>

DigitVal(c) == (CHOOSE i \in DOMAIN Digits : Digits[i] = c) - 1

\* int(digits): leading zeros vanish
RECURSIVE str_to_int(_)
str_to_int(ds) ==
    IF ds = <<>> THEN 0
    ELSE 10 * str_to_int(SubSeq(ds, 1, Len(ds) - 1)) + DigitVal(ds[Len(ds)])

RECURSIVE drop_trailing_zeros(_)
drop_trailing_zeros(ds) ==
    IF ds # <<>> /\ ds[Len(ds)] = "0"
    THEN drop_trailing_zeros(SubSeq(ds, 1, Len(ds) - 1))
    ELSE ds

\* float("i.f") for short digit runs: the value i.f, trailing zeros insignificant
str_to_float(ip, fp) == FloatV(str_to_int(ip), drop_trailing_zeros(fp))

\* str(v) of a scalar value (a list's str starts with "[" and is computed
\* nowhere but in is_meaningful)
str(v) ==
    CASE v.t = "str"   -> v.s
      [] v.t = "int"   -> int_to_str(v.n)
      [] v.t = "float" -> int_to_str(v.n) \o <<".">> \o (IF v.s = <<>> THEN <<"0">> ELSE v.s)
      [] v.t = "nan"   -> <<"n","a","n">>
      [] v.t = "none"  -> <<"N","o","n","e">>
      [] OTHER         -> <<"[">>

-----------------------------------------------------------------------------
(* Merge rule: is_meaningful, maybe_cast_number, merge_attributes          *)

StopList == { <<"n","a">>, <<"n","/","a">>, <<"n","o","n","e">>,
              <<"n","u","l","l">>, <<"n","a","n">> }

is_meaningful(val) ==
    IF val.t = "none" THEN FALSE
    ELSE IF val.t = "nan" THEN FALSE
    ELSE IF val.t = "list" THEN TRUE
    ELSE LET s == strip(str(val))
         IN  ~(s = <<>> \/ lower(s) \in StopList)

\* the longest prefix of s made of digits
RECURSIVE digit_run(_)
digit_run(s) ==
    IF s # <<>> /\ IsDigit(Head(s)) THEN <<Head(s)>> \o digit_run(Tail(s)) ELSE <<>>

\* re.match(r"^(\d+(?:\.\d+)?)", st): <<integer digits, fraction digits>>,
\* or <<>> when there is no match; the fraction is <<>> when the optional
\* group does not match
numeric_prefix(st) ==
    LET ip   == digit_run(st)
        rest == SubSeq(st, Len(ip) + 1, Len(st))
        fp   == IF rest # <<>> /\ Head(rest) = "." THEN digit_run(Tail(rest)) ELSE <<>>
    IN  IF ip = <<>> THEN <<>> ELSE <<ip, fp>>

\* maybe_cast_number returning every value as it came
maybe_cast_number_none(s) == s

\* maybe_cast_number without .replace(",", "")
maybe_cast_number_nocomma(s) ==
    IF s.t # "str" THEN s
    ELSE LET st == strip(s.s)
             m  == numeric_prefix(st)
         IN  IF m = <<>> THEN s
             ELSE IF m[2] # <<>> THEN str_to_float(m[1], m[2])
             ELSE IntV(str_to_int(m[1]))

maybe_cast_number(s) ==
    IF s.t # "str" THEN s
    ELSE LET st == remove_char(strip(s.s), ",")
             m  == numeric_prefix(st)
         IN  IF m = <<>> THEN s
             ELSE IF m[2] # <<>> THEN str_to_float(m[1], m[2])
             ELSE IntV(str_to_int(m[1]))

K_ram == <<"r","a","m">>

K_storage == <<"s","t","o","r","a","g","e">>

K_colors == <<"c","o","l","o","r","s">>

K_price == <<"p","r","i","c","e">>

K_color == <<"c","o","l","o","r">>

K_os == <<"o","s">>

list_fields == {K_ram, K_storage, K_colors, K_price, K_color}

\* existing[k] = v
SetKey(d, k, v) == [x \in (DOMAIN d) \cup {k} |-> IF x = k THEN v ELSE d[x]]

\* the comparison of merge_attributes without .lower().strip()
same_item_exact(normalized_v, existing_item) == str(normalized_v) = str(existing_item)

\* str(normalized_v).lower().strip() == str(existing_item).lower().strip()
same_item(normalized_v, existing_item) ==
    strip(lower(str(normalized_v))) = strip(lower(str(existing_item)))

\* the loop body with the incoming value overwriting a scalar that is set
merge_item_overwrite(d, k, v) ==
    IF ~is_meaningful(v) THEN d
    ELSE LET normalized_v == maybe_cast_number(v)
         IN  IF k \notin DOMAIN d \/ ~is_meaningful(d[k]) \/ k \notin list_fields
             THEN SetKey(d, k, normalized_v)
             ELSE LET existing_val == IF d[k].t # "list" THEN <<d[k]>> ELSE d[k].items
                      is_different ==
                          \A i \in 1..Len(existing_val) :
                              ~same_item(normalized_v, existing_val[i])
                  IN  IF is_different
                      THEN SetKey(d, k, ListV(Append(existing_val, normalized_v)))
                      ELSE SetKey(d, k, ListV(existing_val))

\* the loop body inserting a different value before the stored ones
merge_item_prepend(d, k, v) ==
    IF ~is_meaningful(v) THEN d
    ELSE LET normalized_v == maybe_cast_number(v)
         IN  IF k \notin DOMAIN d \/ ~is_meaningful(d[k])
             THEN SetKey(d, k, normalized_v)
             ELSE IF k \in list_fields
             THEN LET existing_val == IF d[k].t # "list" THEN <<d[k]>> ELSE d[k].items
                      is_different ==
                          \A i \in 1..Len(existing_val) :
                              ~same_item(normalized_v, existing_val[i])
                  IN  IF is_different
                      THEN SetKey(d, k, ListV(<<normalized_v>> \o existing_val))
                      ELSE SetKey(d, k, ListV(existing_val))
             ELSE d

\* the loop body appending without the is_different test
merge_item_append(d, k, v) ==
    IF ~is_meaningful(v) THEN d
    ELSE LET normalized_v == maybe_cast_number(v)
         IN  IF k \notin DOMAIN d \/ ~is_meaningful(d[k])
             THEN SetKey(d, k, normalized_v)
             ELSE IF k \in list_fields
             THEN LET existing_val == IF d[k].t # "list" THEN <<d[k]>> ELSE d[k].items
                  IN  SetKey(d, k, ListV(Append(existing_val, normalized_v)))
             ELSE d

\* the body of the loop of merge_attributes, for one (k, v) of incoming
merge_item(d, k, v) ==
    IF ~is_meaningful(v) THEN d
    ELSE LET normalized_v == maybe_cast_number(v)
         IN  IF k \notin DOMAIN d \/ ~is_meaningful(d[k])
             THEN SetKey(d, k, normalized_v)
             ELSE IF k \in list_fields
             THEN LET existing_val == IF d[k].t # "list" THEN <<d[k]>> ELSE d[k].items
                      is_different ==
                          \A i \in 1..Len(existing_val) :
                              ~same_item(normalized_v, existing_val[i])
                  IN  IF is_different
                      THEN SetKey(d, k, ListV(Append(existing_val, normalized_v)))
                      ELSE SetKey(d, k, ListV(existing_val))
             ELSE d

\* the loop of merge_attributes left after its first item
merge_attributes_first(d, incoming) ==
    IF incoming = <<>> THEN d
    ELSE merge_item(d, Head(incoming)[1], Head(incoming)[2])

\* merge_attributes(existing, incoming): incoming is a dict, modelled as the
\* sequence of its (key, value) items in iteration order (keys distinct)
RECURSIVE merge_attributes(_, _)
merge_attributes(d, incoming) ==
    IF incoming = <<>> THEN d
    ELSE merge_attributes(merge_item(d, Head(incoming)[1], Head(incoming)[2]),
                          Tail(incoming))

-----------------------------------------------------------------------------
(* The merge of a sequence of rows into one entity's attributes            *)

V_8GB == StrV(<<"8","G","B">>)

V_12GB == StrV(<<"1","2","G","B">>)

V_8gb == StrV(<<"8","g","b">>)

V_67inch == StrV(<<"6",".","7"," ","i","n","c","h">>)

V_NA == StrV(<<"N","/","A">>)

V_Blue == StrV(<<" ","B","l","u","e"," ">>)

V_blue == StrV(<<"b","l","u","e">>)

V_Red == StrV(<<"R","e","d">>)

V_Android13 == StrV(<<"A","n","d","r","o","i","d"," ","1","3">>)

V_Android14 == StrV(<<"A","n","d","r","o","i","d"," ","1","4">>)

V_na == StrV(<<"n","a">>)

V_5000mAh == StrV(<<"5","0","0","0"," ","m","A","h">>)

V_1000mAh == StrV(<<"1",",","0","0","0"," ","m","A","h">>)

V_comma5 == StrV(<<",","5">>)

V_5comma000 == StrV(<<"5",",","0","0","0">>)

\* the incoming attribute dicts a row can carry: cells of text columns are
\* str, cells of numeric columns are numbers, empty cells are NaN
Incoming ==
    { <<<<K_ram, v>>>> : v \in {V_8GB, V_12GB, V_8gb, V_67inch, V_NA, IntV(8)} }
    \cup { <<<<K_color, v>>>> : v \in {V_Blue, V_blue, V_Red} }
    \cup { <<<<K_os, v>>>> :
             v \in {V_Android13, V_Android14, V_na, NaN, V_5000mAh, V_1000mAh, V_comma5,
                    V_5comma000} }
    \cup { <<<<K_ram, V_8GB>>, <<K_os, V_Android13>>>>,
           <<<<K_os, V_Android14>>, <<K_ram, V_12GB>>>>,
           <<<<K_color, V_Red>>, <<K_ram, V_8gb>>, <<K_os, V_na>>>> }

\* number of rows merged into the entity
MaxMerges == 3

EmptyDict == [x \in {} |-> None]

\* the variables of the other operations, at rest
MergeIdle == existing = EmptyDict /\ log = <<>>

IdIdle == resolved = {}

CanonIdle ==
    /\ colname = <<>>
    /\ cpc = "idle"
    /\ visited = {}
    /\ best = None
    /\ best_score = <<0, 1>>
    /\ key = None
    /\ results = {}
    /\ runs = 0

\* no file read yet
NoDf == [path |-> "", columns |-> <<>>, brand_col |-> None, model_col |-> None,
         rows |-> <<>>, n_rows |-> 0]

\* row_to_attributes not called yet
NoIdent == [raw_brand |-> None, raw_model |-> None, brand_val |-> None, model_val |-> None,
            brand |-> None, model |-> None, attributes |-> <<>>]

\* OUTPUT_DIR without a file
EmptyDisk == [x \in {} |-> None]

\* the processes that can run the row cycle, and one that is in no cycle
Writers == {1, 2}

NoWriter ==
    [pc |-> "idle", row |-> [brand |-> <<>>, model |-> <<>>, attributes |-> <<>>],
     db |-> [brand |-> <<>>, phones |-> EmptyDict], seen |-> 0, done |-> 0, stale |-> FALSE]

WritersIdle == writers = [w \in Writers |-> NoWriter]

BatchIdle ==
    /\ fold_case = FALSE
    /\ disk = EmptyDisk
    /\ LOG_FILE = <<>>
    /\ csv_files = <<>>
    /\ df = NoDf
    /\ bpc = "idle"
    /\ ident = NoIdent
    /\ hist = <<>>
    /\ faults = 0
    /\ batch_runs = 0
    /\ WritersIdle

InitMerge == MergeIdle /\ IdIdle /\ CanonIdle /\ BatchIdle

\* process_csv_file line 370: one row's attributes merged into the entity
MergeRow ==
    /\ Len(log) < MaxMerges
    /\ \E incoming \in Incoming :
          /\ existing' = merge_attributes(existing, incoming)
          /\ log' = Append(log, incoming)
    /\ UNCHANGED batch
    /\ UNCHANGED <<resolved, colname, cpc, visited, best, best_score, key, results, runs>>

NextMerge == MergeRow

SpecMerge == InitMerge /\ [][NextMerge]_vars

-----------------------------------------------------------------------------
(* Claims about merge_attributes                                            *)

LastRow == log[Len(log)]

\* the keys of an incoming dict
KeysOf(incoming) == {incoming[i][1] : i \in 1..Len(incoming)}

\* the stored values under k as a sequence, a bare scalar being one element
ItemsOf(d, k) == IF d[k].t = "list" THEN d[k].items ELSE <<d[k]>>

\* the comparison form of a stored value: string form, lower-cased, trimmed
Fold(v) == strip(lower(str(v)))

\* C1: merging the same incoming dict a second time, right after the first,
\* leaves the attributes exactly as the first merge left them (same keys,
\* same values, same scalar-versus-list shape).
C1_Idempotent ==
    [][(log # <<>> /\ log' = Append(log, LastRow)) => existing' = existing]_vars

\* C2: a meaningful value held under a key outside list_fields is never
\* changed (nor removed) by a later merge.
C2_FirstWriteWins ==
    [][\A k \in DOMAIN existing :
          (k \notin list_fields /\ is_meaningful(existing[k]))
              => (k \in DOMAIN existing' /\ existing'[k] = existing[k])]_vars

\* C2 witness: os holds "Android 13" right after a row carrying "Android 14"
C2_Witness ==
    /\ Len(log) >= 2
    /\ K_os \in DOMAIN existing
    /\ existing[K_os] = V_Android13
    /\ LastRow = <<<<K_os, V_Android14>>>>

\* position i of the log starts the sequence ram="8GB", ram="12GB" on an
\* entity that has no ram yet
RamSequenceAt(i) ==
    /\ i + 1 <= Len(log)
    /\ \A j \in 1..(i - 1) : K_ram \notin KeysOf(log[j])
    /\ log[i] = <<<<K_ram, V_8GB>>>>
    /\ log[i + 1] = <<<<K_ram, V_12GB>>>>

\* C3 as stated: after ram="8GB" then ram="12GB" the entity holds the list
\* ["8GB", "12GB"], and a following ram="8gb" keeps it.
C3_ListAccumulation_AsStated ==
    \A i \in 1..Len(log) :
        RamSequenceAt(i) =>
            /\ (Len(log) = i + 1 => existing[K_ram] = ListV(<<V_8GB, V_12GB>>))
            /\ (Len(log) = i + 2 /\ log[i + 2] = <<<<K_ram, V_8gb>>>>
                   => existing[K_ram] = ListV(<<V_8GB, V_12GB>>))

\* C3 amended: after ram="8GB" then ram="12GB" the entity holds the list of
\* the coerced values [8, 12], and a following ram="8gb" adds no third entry.
C3_ListAccumulation ==
    \A i \in 1..Len(log) :
        RamSequenceAt(i) =>
            /\ (Len(log) = i + 1 => existing[K_ram] = ListV(<<IntV(8), IntV(12)>>))
            /\ (Len(log) = i + 2 /\ log[i + 2] = <<<<K_ram, V_8gb>>>>
                   => existing[K_ram] = ListV(<<IntV(8), IntV(12)>>))

\* C3 witness: the three merges of the claim have been applied
C3_Witness ==
    /\ Len(log) = 3
    /\ RamSequenceAt(1)
    /\ log[3] = <<<<K_ram, V_8gb>>>>
    /\ Len(ItemsOf(existing, K_ram)) = 2

\* C4: the values stored under a multi-valued key are pairwise distinct
\* under the fold "string form, lower-cased, trimmed".
C4_ListValuesDistinct ==
    \A k \in (DOMAIN existing) \cap list_fields :
        \A i, j \in 1..Len(ItemsOf(existing, k)) :
            i # j => Fold(ItemsOf(existing, k)[i]) # Fold(ItemsOf(existing, k)[j])

\* C4 witness: color holds two values although " Blue " and "blue" were
\* both merged
C4_Witness ==
    /\ K_color \in DOMAIN existing
    /\ Len(ItemsOf(existing, K_color)) = 2
    /\ \E i, j \in 1..Len(log) :
          log[i] = <<<<K_color, V_Blue>>>> /\ log[j] = <<<<K_color, V_blue>>>>

\* no earlier row of the log carried key k: the last row is the first to set it
FirstCarried(k) == \A j \in 1..(Len(log) - 1) : k \notin KeysOf(log[j])

\* every meaningful string value v (with Applies(v)) that the last row
\* carried under a key no earlier row carried is stored as Stored(v)
StoresCoerced(Stored(_), Applies(_)) ==
    log # <<>> =>
        \A i \in 1..Len(LastRow) :
            LET k == LastRow[i][1]
                v == LastRow[i][2]
            IN  (FirstCarried(k) /\ v.t = "str" /\ is_meaningful(v) /\ Applies(v))
                    => (k \in DOMAIN existing /\ existing[k] = Stored(v))

StartsWithDigit(s) == s # <<>> /\ IsDigit(Head(s))

\* a digit run followed by "." and a digit: a decimal number
HasDecimalPoint(s) ==
    LET r == SubSeq(s, Len(digit_run(s)) + 1, Len(s))
    IN  Len(r) >= 2 /\ r[1] = "." /\ IsDigit(r[2])

C5_AsStated_Applies(v) == ~HasDecimalPoint(strip(v.s))

C5_AsStated_Stored(v) ==
    IF StartsWithDigit(strip(v.s))
    THEN IntV(str_to_int(digit_run(strip(v.s))))
    ELSE v

\* C5 as stated: a string whose trimmed form starts with a run of digits
\* (no decimal point) is stored as the integer of that run; a string whose
\* trimmed form does not start with a digit is stored unchanged.
C5_NumericCoercion_AsStated == StoresCoerced(C5_AsStated_Stored, C5_AsStated_Applies)

CommaFree(v) == remove_char(strip(v.s), ",")

C5_Applies(v) == ~HasDecimalPoint(CommaFree(v))

C5_Stored(v) ==
    IF StartsWithDigit(CommaFree(v))
    THEN IntV(str_to_int(digit_run(CommaFree(v))))
    ELSE v

\* C5 amended: the digit run is read from the trimmed string with its commas
\* removed: a string whose trimmed, comma-free form starts with a run of
\* digits (not followed by a decimal point and a digit) is stored as the
\* integer of that run; one whose trimmed, comma-free form does not start
\* with a digit is stored unchanged.
C5_NumericCoercion == StoresCoerced(C5_Stored, C5_Applies)

\* C5 witness: "1,000 mAh", the first value carried for os, is stored as 1000
C5_Witness ==
    /\ log # <<>>
    /\ LastRow = <<<<K_os, V_1000mAh>>>>
    /\ FirstCarried(K_os)
    /\ existing[K_os] = IntV(1000)

-----------------------------------------------------------------------------
(* Unique ID generation: stable_phone_id                                    *)

\* uuid.uuid5(uuid.NAMESPACE_URL, base): a SHA-1 digest of the namespace and
\* the name, modelled as the pair itself (the digest taken as injective)
uuid5(namespace, name) == [namespace |-> namespace, name |-> name]

\* stable_phone_id without .lower()
stable_phone_id_nolower(brand, model) ==
    uuid5("NAMESPACE_URL", strip(brand) \o <<"|">> \o strip(model))

stable_phone_id(brand, model) ==
    LET base == lower(strip(brand)) \o <<"|">> \o lower(strip(model))
    IN  uuid5("NAMESPACE_URL", base)

B_SAMSUNG == <<"S","A","M","S","U","N","G">>

B_Samsung == <<"S","a","m","s","u","n","g">>

B_samsung_sp == <<" ","s","a","m","s","u","n","g"," ">>

B_a_bar_b == <<"a","|","b">>

B_a == <<"a">>

M_GALAXY == <<"G","A","L","A","X","Y"," ","S","2","1">>

M_Galaxy == <<"G","a","l","a","x","y"," ","S","2","1">>

M_galaxy_sp == <<"g","a","l","a","x","y"," ","s","2","1"," ">>

M_c == <<"c">>

M_b_bar_c == <<"b","|","c">>

\* brand and model strings a row can carry
BrandInputs == { B_SAMSUNG, B_Samsung, B_samsung_sp, B_a_bar_b, B_a }

ModelInputs == { M_GALAXY, M_Galaxy, M_galaxy_sp, M_c, M_b_bar_c }

\* number of (brand, model) pairs an execution resolves
MaxPairs == 2

InitId == MergeIdle /\ IdIdle /\ CanonIdle /\ BatchIdle

\* process_csv_file line 359: the id of one row's (brand, model)
ResolveId ==
    /\ Cardinality(resolved) < MaxPairs
    /\ \E brand \in BrandInputs, model \in ModelInputs :
          resolved' = resolved \cup
              {[brand |-> brand, model |-> model, id |-> stable_phone_id(brand, model)]}
    /\ UNCHANGED batch
    /\ UNCHANGED <<existing, log, colname, cpc, visited, best, best_score, key, results, runs>>

NextId == ResolveId

SpecId == InitId /\ [][NextId]_vars

-----------------------------------------------------------------------------
(* Claims about stable_phone_id                                             *)

\* two characters that are equal or the two cases of one letter
SameLetter(c, d) ==
    c = d \/ \E i \in DOMAIN UpperCase : {c, d} = {UpperCase[i], LowerCase[i]}

\* s without its leading and trailing spaces
Inner(s) ==
    LET idx == {i \in 1..Len(s) : s[i] # " "}
    IN  IF idx = {} THEN <<>>
        ELSE SubSeq(s, CHOOSE i \in idx : \A j \in idx : i <= j,
                       CHOOSE i \in idx : \A j \in idx : i >= j)

\* a and b differ only in letter case and in leading/trailing whitespace
DifferOnlyByCaseAndSpace(a, b) ==
    /\ Len(Inner(a)) = Len(Inner(b))
    /\ \A i \in 1..Len(Inner(a)) : SameLetter(Inner(a)[i], Inner(b)[i])

\* C6: (brand, model) pairs that differ only in letter case and in
\* leading/trailing whitespace receive the same id.
C6_IdDeterminism ==
    \A p, q \in resolved :
        (DifferOnlyByCaseAndSpace(p.brand, q.brand)
            /\ DifferOnlyByCaseAndSpace(p.model, q.model)) => p.id = q.id

\* C6 witness: two pairs written differently in brand and in model, one id
C6_Witness ==
    \E p, q \in resolved :
        /\ p.brand # q.brand
        /\ p.model # q.model
        /\ DifferOnlyByCaseAndSpace(p.brand, q.brand)
        /\ DifferOnlyByCaseAndSpace(p.model, q.model)
        /\ p.id = q.id

\* normalize = trim + lowercase
normalize(s) == lower(strip(s))

\* C7: two pairs whose normalized brand or normalized model differ never
\* receive the same id (the digest taken as injective).
C7_IdInjective ==
    \A p, q \in resolved :
        (normalize(p.brand) # normalize(q.brand) \/ normalize(p.model) # normalize(q.model))
            => p.id # q.id

-----------------------------------------------------------------------------
(* Column name normalization helpers: clean_colname, token_set, sim_ratio   *)

\* re.sub(r"[^a-z0-9]+", " ", s) followed by re.sub(r"\s+", " ", s): every
\* run of characters outside a-z0-9 becomes one space
RECURSIVE squeeze(_, _)
squeeze(s, after_space) ==
    IF s = <<>> THEN <<>>
    ELSE IF IsLowerAlnum(Head(s)) THEN <<Head(s)>> \o squeeze(Tail(s), FALSE)
    ELSE IF after_space THEN squeeze(Tail(s), TRUE)
    ELSE <<" ">> \o squeeze(Tail(s), TRUE)

clean_colname(name) == strip(squeeze(lower(strip(name)), FALSE))

\* str.split(): the whitespace-separated words of s, as a set
RECURSIVE split_set(_, _)
split_set(s, word) ==
    IF s = <<>> THEN (IF word = <<>> THEN {} ELSE {word})
    ELSE IF IsSpace(Head(s))
    THEN (IF word = <<>> THEN {} ELSE {word}) \cup split_set(Tail(s), <<>>)
    ELSE split_set(Tail(s), Append(word, Head(s)))

token_set(name) == split_set(clean_colname(name), <<>>)

\* length of the common run a[i..], b[j..] within a[..ahi], b[..bhi]
RECURSIVE run_len(_, _, _, _, _, _)
run_len(a, b, i, j, ahi, bhi) ==
    IF i <= ahi /\ j <= bhi /\ a[i] = b[j]
    THEN 1 + run_len(a, b, i + 1, j + 1, ahi, bhi)
    ELSE 0

SetMax(S) == CHOOSE x \in S : \A y \in S : y <= x

SetMin(S) == CHOOSE x \in S : \A y \in S : x <= y

\* SequenceMatcher.find_longest_match(alo, ahi, blo, bhi) with no junk: the
\* longest common block of a[alo..ahi] and b[blo..bhi]; of the longest, the
\* one starting earliest in a, and of those the one starting earliest in b
find_longest_match(a, b, alo, ahi, blo, bhi) ==
    LET len == [i \in alo..ahi, j \in blo..bhi |-> run_len(a, b, i, j, ahi, bhi)]
        k   == SetMax({len[i, j] : i \in alo..ahi, j \in blo..bhi})
        i0  == SetMin({i \in alo..ahi : \E j \in blo..bhi : len[i, j] = k})
        j0  == SetMin({j \in blo..bhi : len[i0, j] = k})
    IN  [i |-> i0, j |-> j0, k |-> k]

\* SequenceMatcher.get_matching_blocks, summed: the number of matched
\* characters of a[alo..ahi] and b[blo..bhi]
RECURSIVE matching_chars(_, _, _, _, _, _)
matching_chars(a, b, alo, ahi, blo, bhi) ==
    IF alo > ahi \/ blo > bhi THEN 0
    ELSE LET m == find_longest_match(a, b, alo, ahi, blo, bhi)
         IN  IF m.k = 0 THEN 0
             ELSE m.k + matching_chars(a, b, alo, m.i - 1, blo, m.j - 1)
                      + matching_chars(a, b, m.i + m.k, ahi, m.j + m.k, bhi)

\* Scores are fractions <<numerator, denominator>>, denominator > 0
FracGT(x, y) == x[1] * y[2] > y[1] * x[2]

FracGE(x, y) == x[1] * y[2] >= y[1] * x[2]

FracAdd(x, y) == <<x[1] * y[2] + y[1] * x[2], x[2] * y[2]>>

\* SequenceMatcher(None, a, b).ratio(): 2.0 * matches / (len(a) + len(b)),
\* and 1.0 for two empty strings
ratio(a, b) ==
    IF Len(a) + Len(b) = 0 THEN <<1, 1>>
    ELSE <<2 * matching_chars(a, b, 1, Len(a), 1, Len(b)), Len(a) + Len(b)>>

sim_ratio(a, b) == ratio(clean_colname(a), clean_colname(b))

-----------------------------------------------------------------------------
(* Canonical schema seeds                                                   *)

CANONICAL_KEYS == <<
    [canon |-> <<"b","r","a","n","d">>,
     aliases |-> {
          <<"b","r","a","n","d">>,
          <<"b","r","a","n","d","_","n","a","m","e">>,
          <<"c","o","m","p","a","n","y">>,
          <<"m","a","n","u","f","a","c","t","u","r","e","r">> }],
    [canon |-> <<"m","o","d","e","l">>,
     aliases |-> {
          <<"d","e","v","i","c","e">>,
          <<"d","e","v","i","c","e","_","n","a","m","e">>,
          <<"m","o","d","e","l">>,
          <<"m","o","d","e","l","_","n","a","m","e">>,
          <<"n","a","m","e">>,
          <<"p","h","o","n","e","_","m","o","d","e","l">>,
          <<"p","r","o","d","u","c","t","_","n","a","m","e">>,
          <<"t","i","t","l","e">> }],
    [canon |-> <<"v","a","r","i","a","n","t">>,
     aliases |-> {
          <<"t","r","i","m">>,
          <<"v","a","r","i","a","n","t">>,
          <<"v","e","r","s","i","o","n">> }],
    [canon |-> <<"p","r","i","c","e">>,
     aliases |-> {
          <<"c","u","r","r","e","n","t","_","p","r","i","c","e">>,
          <<"d","i","s","c","o","u","n","t","_","p","r","i","c","e">>,
          <<"p","r","i","c","e">>,
          <<"p","r","i","c","e","_","i","n","r">>,
          <<"p","r","i","c","e","_","r","s">>,
          <<"p","r","i","c","e","_","r","u","p","e","e">> }],
    [canon |-> <<"m","r","p">>,
     aliases |-> {
          <<"l","i","s","t","_","p","r","i","c","e">>,
          <<"m","r","p">>,
          <<"o","r","i","g","i","n","a","l","_","p","r","i","c","e">> }],
    [canon |-> <<"r","a","t","i","n","g">>,
     aliases |-> {
          <<"a","v","g","_","r","a","t","i","n","g">>,
          <<"r","a","t","i","n","g">>,
          <<"r","a","t","i","n","g","s">> }],
    [canon |-> <<"r","e","v","i","e","w","_","c","o","u","n","t">>,
     aliases |-> {
          <<"n","u","m","_","r","e","v","i","e","w","s">>,
          <<"r","a","t","i","n","g","s","_","c","o","u","n","t">>,
          <<"r","e","v","i","e","w","_","c","o","u","n","t">>,
          <<"r","e","v","i","e","w","s","_","c","o","u","n","t">> }],
    [canon |-> <<"c","h","i","p","s","e","t">>,
     aliases |-> {
          <<"c","h","i","p","s","e","t">>,
          <<"p","r","o","c","e","s","s","o","r">>,
          <<"p","r","o","c","e","s","s","o","r","_","m","o","d","e","l">>,
          <<"s","o","c">> }],
    [canon |-> <<"c","p","u">>,
     aliases |-> {
          <<"c","p","u">>,
          <<"c","p","u","_","m","o","d","e","l">>,
          <<"p","r","o","c","e","s","s","o","r","_","n","a","m","e">> }],
    [canon |-> <<"g","p","u">>,
     aliases |-> {
          <<"g","p","u">>,
          <<"g","r","a","p","h","i","c","s">> }],
    [canon |-> <<"r","a","m">>,
     aliases |-> {
          <<"m","e","m","o","r","y","_","r","a","m">>,
          <<"r","a","m">>,
          <<"r","a","m","_","g","b">>,
          <<"r","a","m","_","s","i","z","e">> }],
    [canon |-> <<"s","t","o","r","a","g","e">>,
     aliases |-> {
          <<"i","n","t","e","r","n","a","l","_","s","t","o","r","a","g","e">>,
          <<"m","e","m","o","r","y","_","s","t","o","r","a","g","e">>,
          <<"r","o","m">>,
          <<"s","t","o","r","a","g","e">>,
          <<"s","t","o","r","a","g","e","_","g","b">> }],
    [canon |-> <<"d","i","s","p","l","a","y","_","s","i","z","e">>,
     aliases |-> {
          <<"d","i","s","p","l","a","y">>,
          <<"d","i","s","p","l","a","y","_","s","i","z","e">>,
          <<"s","c","r","e","e","n">>,
          <<"s","c","r","e","e","n","_","s","i","z","e">> }],
    [canon |-> <<"d","i","s","p","l","a","y","_","t","y","p","e">>,
     aliases |-> {
          <<"d","i","s","p","l","a","y","_","t","y","p","e">>,
          <<"p","a","n","e","l","_","t","y","p","e">> }],
    [canon |-> <<"r","e","f","r","e","s","h","_","r","a","t","e">>,
     aliases |-> {
          <<"r","e","f","r","e","s","h","_","r","a","t","e">>,
          <<"s","c","r","e","e","n","_","r","e","f","r","e","s","h","_","r","a","t","e">> }],
    [canon |-> <<"r","e","s","o","l","u","t","i","o","n">>,
     aliases |-> {
          <<"r","e","s","o","l","u","t","i","o","n">>,
          <<"s","c","r","e","e","n","_","r","e","s","o","l","u","t","i","o","n">> }],
    [canon |-> <<"c","a","m","e","r","a","_","m","a","i","n">>,
     aliases |-> {
          <<"c","a","m","e","r","a">>,
          <<"m","a","i","n","_","c","a","m","e","r","a">>,
          <<"p","r","i","m","a","r","y","_","c","a","m","e","r","a">>,
          <<"r","e","a","r","_","c","a","m">>,
          <<"r","e","a","r","_","c","a","m","e","r","a">> }],
    [canon |-> <<"c","a","m","e","r","a","_","f","r","o","n","t">>,
     aliases |-> {
          <<"f","r","o","n","t","_","c","a","m","e","r","a">>,
          <<"s","e","c","o","n","d","a","r","y","_","c","a","m","e","r","a">>,
          <<"s","e","l","f","i","e","_","c","a","m","e","r","a">> }],
    [canon |-> <<"b","a","t","t","e","r","y","_","c","a","p","a","c","i","t","y">>,
     aliases |-> {
          <<"b","a","t","t","e","r","y">>,
          <<"b","a","t","t","e","r","y","_","c","a","p","a","c","i","t","y">>,
          <<"b","a","t","t","e","r","y","_","m","a","h">> }],
    [canon |-> <<"c","h","a","r","g","i","n","g">>,
     aliases |-> {
          <<"c","h","a","r","g","e","r","_","w","a","t","t">>,
          <<"c","h","a","r","g","i","n","g">>,
          <<"c","h","a","r","g","i","n","g","_","s","p","e","e","d">>,
          <<"c","h","a","r","g","i","n","g","_","w","a","t","t">>,
          <<"f","a","s","t","_","c","h","a","r","g","i","n","g">> }],
    [canon |-> <<"o","s">>,
     aliases |-> {
          <<"a","n","d","r","o","i","d","_","v","e","r","s","i","o","n">>,
          <<"i","o","s","_","v","e","r","s","i","o","n">>,
          <<"o","p","e","r","a","t","i","n","g","_","s","y","s","t","e","m">>,
          <<"o","s">>,
          <<"s","o","f","t","w","a","r","e">> }],
    [canon |-> <<"n","e","t","w","o","r","k">>,
     aliases |-> {
          <<"c","o","n","n","e","c","t","i","v","i","t","y">>,
          <<"n","e","t","w","o","r","k">>,
          <<"n","e","t","w","o","r","k","_","t","e","c","h","n","o","l","o","g","y">> }],
    [canon |-> <<"s","i","m">>,
     aliases |-> {
          <<"s","i","m">>,
          <<"s","i","m","_","s","l","o","t","s">>,
          <<"s","i","m","_","t","y","p","e">> }],
    [canon |-> <<"n","f","c">>,
     aliases |-> {
          <<"n","f","c">> }],
    [canon |-> <<"w","i","f","i">>,
     aliases |-> {
          <<"w","i"," ","f","i">>,
          <<"w","i","f","i">> }],
    [canon |-> <<"b","l","u","e","t","o","o","t","h">>,
     aliases |-> {
          <<"b","l","u","e","t","o","o","t","h">> }],
    [canon |-> <<"d","i","m","e","n","s","i","o","n","s">>,
     aliases |-> {
          <<"d","i","m","e","n","s","i","o","n","s">>,
          <<"s","i","z","e">> }],
    [canon |-> <<"w","e","i","g","h","t">>,
     aliases |-> {
          <<"w","e","i","g","h","t">> }],
    [canon |-> <<"c","o","l","o","r","s">>,
     aliases |-> {
          <<"c","o","l","o","r">>,
          <<"c","o","l","o","r","s">>,
          <<"c","o","l","o","u","r">> }],
    [canon |-> <<"r","e","l","e","a","s","e","_","d","a","t","e">>,
     aliases |-> {
          <<"a","n","n","o","u","n","c","e","d">>,
          <<"l","a","u","n","c","h","_","d","a","t","e">>,
          <<"r","e","l","e","a","s","e","_","d","a","t","e">> }],
    [canon |-> <<"i","m","a","g","e","_","u","r","l">>,
     aliases |-> {
          <<"i","m","a","g","e">>,
          <<"i","m","a","g","e","_","u","r","l">>,
          <<"i","m","g","_","u","r","l">>,
          <<"t","h","u","m","b","n","a","i","l">> }],
    [canon |-> <<"u","s","b">>,
     aliases |-> {
          <<"u","s","b">>,
          <<"u","s","b","_","p","o","r","t">>,
          <<"u","s","b","_","t","y","p","e">> }],
    [canon |-> <<"s","e","n","s","o","r","s">>,
     aliases |-> {
          <<"s","e","n","s","o","r","_","l","i","s","t">>,
          <<"s","e","n","s","o","r","s">> }],
    [canon |-> <<"w","a","r","r","a","n","t","y">>,
     aliases |-> {
          <<"w","a","r","r","a","n","t","y">> }],
    [canon |-> <<"s","e","l","l","e","r">>,
     aliases |-> {
          <<"s","e","l","l","e","r">>,
          <<"s","e","l","l","e","r","_","n","a","m","e">>,
          <<"s","t","o","r","e">> }],
    [canon |-> <<"u","r","l">>,
     aliases |-> {
          <<"l","i","n","k">>,
          <<"p","r","o","d","u","c","t","_","u","r","l">>,
          <<"u","r","l">> }] >>

\* CANONICAL_KEYS.keys(), in the dict's order
CanonKeys == [i \in DOMAIN CANONICAL_KEYS |-> CANONICAL_KEYS[i].canon]

\* the cleaned aliases of the i-th canonical key
CleanAliases(i) == {clean_colname(a) : a \in CANONICAL_KEYS[i].aliases}

\* ALIAS_TO_CANON: cleaned alias -> canonical key; an alias listed under two
\* keys keeps the later key
ALIAS_TO_CANON ==
    [a \in UNION {CleanAliases(i) : i \in DOMAIN CANONICAL_KEYS} |->
        CanonKeys[SetMax({i \in DOMAIN CANONICAL_KEYS : a \in CleanAliases(i)})]]

\* the place of an alias in ALIAS_TO_CANON's insertion order: with the
\* aliases of the canonical key that first listed it
AliasGroup(a) == SetMin({i \in DOMAIN CANONICAL_KEYS : a \in CleanAliases(i)})

-----------------------------------------------------------------------------
(* best_canonical, and the attribute key row_to_attributes derives from it  *)

\* 0.05 per shared token
TokenBonus == <<5, 100>>

\* the acceptance threshold of the fuzzy match over the aliases, 0.85
AliasThreshold_loose == <<80, 100>>

AliasThreshold == <<85, 100>>

\* the acceptance threshold of the fuzzy match over the canonical keys, 0.90
CanonThreshold == <<90, 100>>

\* the score of one alias in the loop over ALIAS_TO_CANON
alias_score(cleaned, alias) ==
    LET tok_overlap == Cardinality(token_set(cleaned) \cap token_set(alias))
    IN  FracAdd(sim_ratio(cleaned, alias), <<TokenBonus[1] * tok_overlap, TokenBonus[2]>>)

Col_RAM_GB == <<"R","A","M"," ","(","G","B",")">>

Col_Foo_Bar_Baz == <<"F","o","o"," ","B","a","r"," ","B","a","z">>

Col_display_price == <<"d","i","s","p","l","a","y"," ","p","r","i","c","e">>

Col_camera_front == <<"c","a","m","e","r","a"," ","f","r","o","n","t">>

Col_camera_inr == <<"c","a","m","e","r","a"," ","i","n","r">>

Col_product_urls == <<"p","r","o","d","u","c","t"," ","u","r","l","s">>

Col_os_type == <<"o","s"," ","t","y","p","e">>

Col_parens == <<"(",")">>

Col_attr_ram == <<"a","t","t","r","_","r","a","m">>

\* the raw column names a table can carry
ColNames == { Col_RAM_GB, Col_Foo_Bar_Baz, Col_display_price, Col_camera_front,
              Col_camera_inr, Col_product_urls, Col_os_type, Col_parens,
              Col_attr_ram }

\* alias_score and AliasGroup, tabulated for the column names and the aliases
ScoreOf ==
    [n \in {clean_colname(c) : c \in ColNames} |->
        [a \in DOMAIN ALIAS_TO_CANON |-> alias_score(n, a)]]

GroupOf == [a \in DOMAIN ALIAS_TO_CANON |-> AliasGroup(a)]

\* the aliases the iteration over ALIAS_TO_CANON.items() may yield next when
\* it has yielded v: CANONICAL_KEYS is a dict and keeps its order, each alias
\* collection is a set of str, which iterates in an order that depends on
\* the process's hash seed
NextAliases(v) ==
    LET rest == (DOMAIN ALIAS_TO_CANON) \ v
        g    == SetMin({GroupOf[a] : a \in rest})
    IN  {a \in rest : GroupOf[a] = g}

\* lines 133-134 with the assignment of best_score outside the if
update_best_always(b, bs, canon, score) ==
    IF FracGT(score, bs) THEN <<canon, score>> ELSE <<b, score>>

\* lines 133-134: if score > best_score: best, best_score = canon, score
update_best(b, bs, canon, score) ==
    IF FracGT(score, bs) THEN <<canon, score>> ELSE <<b, bs>>

\* the loop over CANONICAL_KEYS.keys(), from the i-th key on, continuing
\* with the best and best_score the alias loop left
RECURSIVE canon_loop(_, _, _, _)
canon_loop(cleaned, i, b, bs) ==
    IF i > Len(CanonKeys) THEN <<b, bs>>
    ELSE LET score == sim_ratio(cleaned, CanonKeys[i])
         IN  IF FracGT(score, bs)
             THEN canon_loop(cleaned, i + 1, StrV(CanonKeys[i]), score)
             ELSE canon_loop(cleaned, i + 1, b, bs)

AttrPrefix == <<"a","t","t","r","_">>

\* row_to_attributes lines 312-315 with the fallback key left unprefixed
AttrKey_noprefix(canon, raw_col) ==
    IF canon = None THEN StrV(clean_colname(raw_col)) ELSE canon

\* row_to_attributes lines 312-315 with the fallback replaced by the best
\* guess the search was left with
AttrKey_lastbest(canon, raw_col) ==
    IF canon = None
    THEN (IF best = None THEN StrV(AttrPrefix \o clean_colname(raw_col)) ELSE best)
    ELSE canon

\* row_to_attributes lines 312-315: the key for a column given
\* best_canonical's result
AttrKey(canon, raw_col) ==
    IF canon = None THEN StrV(AttrPrefix \o clean_colname(raw_col)) ELSE canon

\* number of runs (processes, each with its own set iteration order) that
\* map the column name
MaxRuns == 2

InitCanon ==
    /\ MergeIdle /\ IdIdle /\ BatchIdle
    /\ colname \in ColNames
    /\ cpc = "start"
    /\ visited = {}
    /\ best = None
    /\ best_score = <<0, 1>>
    /\ key = None
    /\ results = {}
    /\ runs = 0

\* best_canonical returns ret and row_to_attributes sets the key
Return(ret) ==
    /\ cpc' = "done"
    /\ key' = AttrKey(ret, colname)
    /\ results' = results \cup {AttrKey(ret, colname)}
    /\ runs' = runs + 1

\* lines 118-127: the empty name, the direct alias hit, or the start of the
\* fuzzy search
BC_Start ==
    /\ cpc = "start"
    /\ IF colname = <<>>
       THEN Return(None)
       ELSE IF clean_colname(colname) \in DOMAIN ALIAS_TO_CANON
       THEN Return(StrV(ALIAS_TO_CANON[clean_colname(colname)]))
       ELSE cpc' = "aliases" /\ UNCHANGED <<key, results, runs>>
    /\ visited' = {}
    /\ best' = None
    /\ best_score' = <<0, 1>>
    /\ UNCHANGED batch
    /\ UNCHANGED <<existing, log, resolved, colname>>

\* lines 128-134: one iteration of the loop over ALIAS_TO_CANON.items()
BC_AliasStep ==
    /\ cpc = "aliases"
    /\ \E alias \in NextAliases(visited) :
          LET score == ScoreOf[clean_colname(colname)][alias]
              upd   == update_best(best, best_score, StrV(ALIAS_TO_CANON[alias]), score)
          IN  /\ visited' = visited \cup {alias}
              /\ best' = upd[1]
              /\ best_score' = upd[2]
    /\ UNCHANGED batch
    /\ UNCHANGED <<existing, log, resolved, colname, cpc, key, results, runs>>

\* lines 137-138: the end of the alias loop and its threshold
BC_AliasesEnd ==
    /\ cpc = "aliases"
    /\ visited = DOMAIN ALIAS_TO_CANON
    /\ IF best # None /\ FracGE(best_score, AliasThreshold)
       THEN Return(best)
       ELSE cpc' = "canon" /\ UNCHANGED <<key, results, runs>>
    /\ UNCHANGED batch
    /\ UNCHANGED <<existing, log, resolved, colname, visited, best, best_score>>

\* lines 141-150: the loop over the canonical keys and its threshold
BC_CanonLoop ==
    /\ cpc = "canon"
    /\ LET r == canon_loop(clean_colname(colname), 1, best, best_score)
       IN  /\ best' = r[1]
           /\ best_score' = r[2]
           /\ IF r[1] # None /\ FracGE(r[2], CanonThreshold)
              THEN Return(r[1])
              ELSE Return(None)
    /\ UNCHANGED batch
    /\ UNCHANGED <<existing, log, resolved, colname, visited>>

\* the same column name mapped by another run of the program
BC_Rerun ==
    /\ cpc = "done"
    /\ runs < MaxRuns
    /\ cpc' = "start"
    /\ visited' = {}
    /\ best' = None
    /\ best_score' = <<0, 1>>
    /\ key' = None
    /\ UNCHANGED batch
    /\ UNCHANGED <<existing, log, resolved, colname, results, runs>>

NextCanon == BC_Start \/ BC_AliasStep \/ BC_AliasesEnd \/ BC_CanonLoop \/ BC_Rerun

SpecCanon == InitCanon /\ [][NextCanon]_vars

-----------------------------------------------------------------------------
(* Claims about the canonicalization of column names                        *)

Key_ram == StrV(K_ram)

Key_attr_foo_bar_baz_underscores == StrV(<<"a","t","t","r","_","f","o","o","_","b","a","r","_","b","a","z">>)

Key_attr_foo_bar_baz_spaces == StrV(<<"a","t","t","r","_","f","o","o"," ","b","a","r"," ","b","a","z">>)

\* C8 as stated: "RAM (GB)" is stored under ram, and the unrecognized
\* "Foo Bar Baz" under attr_foo_bar_baz.
C8_Canonicalization_AsStated ==
    cpc = "done" =>
        /\ (colname = Col_RAM_GB => key = Key_ram)
        /\ (colname = Col_Foo_Bar_Baz => key = Key_attr_foo_bar_baz_underscores)

\* C8 amended: "RAM (GB)" is stored under ram, and the unrecognized
\* "Foo Bar Baz" under "attr_foo bar baz": the prefix attr_ and the cleaned
\* name, whose words clean_colname separates by spaces.
C8_Canonicalization ==
    cpc = "done" =>
        /\ (colname = Col_RAM_GB => key = Key_ram)
        /\ (colname = Col_Foo_Bar_Baz => key = Key_attr_foo_bar_baz_spaces)

\* C8 witness: "Foo Bar Baz" went through both fuzzy searches to its key
C8_Witness ==
    /\ cpc = "done"
    /\ colname = Col_Foo_Bar_Baz
    /\ visited = DOMAIN ALIAS_TO_CANON
    /\ key = Key_attr_foo_bar_baz_spaces

Cleaned == clean_colname(colname)

\* the aliases that reach the best score over all aliases
BestAliases ==
    LET sc == ScoreOf[Cleaned]
    IN  {a \in DOMAIN ALIAS_TO_CANON : \A b \in DOMAIN ALIAS_TO_CANON : FracGE(sc[a], sc[b])}

\* the canonical key names with the best similarity to the input
IsBestCanon(i) ==
    \A j \in DOMAIN CanonKeys :
        FracGE(sim_ratio(Cleaned, CanonKeys[i]), sim_ratio(Cleaned, CanonKeys[j]))

Tier1 == Cleaned \in DOMAIN ALIAS_TO_CANON

Tier2 == \E a \in BestAliases : FracGE(ScoreOf[Cleaned][a], <<85, 100>>)

Tier3 ==
    \E i \in DOMAIN CanonKeys :
        IsBestCanon(i) /\ FracGE(sim_ratio(Cleaned, CanonKeys[i]), <<90, 100>>)

\* C9: the tiers apply in order and the first hit wins: the exact alias; else
\* the canonical key of a best-scoring alias if that score is >= 0.85; else
\* the canonical key name of best similarity if that similarity is >= 0.90;
\* else the fallback attr_<normalized-name>.
C9_TiersInOrder ==
    cpc = "done" =>
        IF Tier1 THEN key = StrV(ALIAS_TO_CANON[Cleaned])
        ELSE IF Tier2
        THEN \E a \in BestAliases : key = StrV(ALIAS_TO_CANON[a])
        ELSE IF Tier3
        THEN \E i \in DOMAIN CanonKeys : IsBestCanon(i) /\ key = StrV(CanonKeys[i])
        ELSE key = StrV(<<"a","t","t","r","_">> \o Cleaned)

\* C9 witness: a column that misses tiers 1 and 2 and is mapped by tier 3
C9_Witness ==
    /\ cpc = "done"
    /\ colname = Col_camera_front
    /\ ~Tier1 /\ ~Tier2 /\ Tier3
    /\ key = StrV(<<"c","a","m","e","r","a","_","f","r","o","n","t">>)

\* C10: every run maps a column name to the same key, whatever order the
\* alias sets are iterated in.
C10_Deterministic == Cardinality(results) <= 1

\* C10 witness: two runs have mapped a column whose best score is reached
\* by aliases of two different canonical keys
C10_Witness ==
    /\ runs = 2
    /\ cpc = "done"
    /\ colname = Col_display_price
    /\ visited = DOMAIN ALIAS_TO_CANON
    /\ \E a, b \in BestAliases :
          /\ ALIAS_TO_CANON[a] # ALIAS_TO_CANON[b]
          /\ key = StrV(ALIAS_TO_CANON[a])

\* best_canonical finds no confident match for the column name
NoConfidentMatch == ~Tier1 /\ ~Tier2 /\ ~Tier3

\* C11: the key row_to_attributes synthesizes for a column name without a
\* confident match is never one of the canonical keys of CANONICAL_KEYS.
C11_FallbackNeverCanonical ==
    (cpc = "done" /\ (colname = <<>> \/ NoConfidentMatch)) =>
        /\ key.t = "str"
        /\ key.s \notin Range(CanonKeys)
        /\ clean_colname(key.s) \notin {clean_colname(k) : k \in Range(CanonKeys)}

\* C11 witness: "attr_ram", a name made to look like a prefixed canonical
\* key, found no match and was stored under "attr_attr ram"
C11_Witness ==
    /\ cpc = "done"
    /\ colname = Col_attr_ram
    /\ NoConfidentMatch
    /\ key = StrV(<<"a","t","t","r","_","a","t","t","r"," ","r","a","m">>)

-----------------------------------------------------------------------------
(* Brand/Model extraction: find_column, guess_brand_model,                  *)
(* split_brand_from_model                                                   *)

PRIORITY_BRAND_CANDS ==
    << <<"b","r","a","n","d">>,
       <<"b","r","a","n","d","_","n","a","m","e">>,
       <<"m","a","n","u","f","a","c","t","u","r","e","r">>,
       <<"c","o","m","p","a","n","y">> >>

PRIORITY_MODEL_CANDS ==
    << <<"m","o","d","e","l">>,
       <<"m","o","d","e","l","_","n","a","m","e">>,
       <<"p","h","o","n","e","_","m","o","d","e","l">>,
       <<"d","e","v","i","c","e">>,
       <<"d","e","v","i","c","e","_","n","a","m","e">>,
       <<"p","r","o","d","u","c","t","_","n","a","m","e">>,
       <<"n","a","m","e">>,
       <<"t","i","t","l","e">> >>

\* the acceptance threshold of find_column's fuzzy match, 0.80
ColumnThreshold == <<80, 100>>

\* max(score, ...) over the candidates, from 0.0
RECURSIVE max_ratio(_, _, _)
max_ratio(col, candidates, score) ==
    IF candidates = <<>> THEN score
    ELSE LET r == sim_ratio(col, Head(candidates))
         IN  IF FracGT(r, score)
             THEN max_ratio(col, Tail(candidates), r)
             ELSE max_ratio(col, Tail(candidates), score)

\* the loop over the columns keeping the first column that scores at all
RECURSIVE fuzzy_column_first(_, _, _, _, _)
fuzzy_column_first(cols, candidates, j, b, bs) ==
    IF j > Len(cols) THEN <<b, bs>>
    ELSE LET score == max_ratio(cols[j], candidates, <<0, 1>>)
         IN  IF b = None /\ FracGT(score, bs)
             THEN fuzzy_column_first(cols, candidates, j + 1, StrV(cols[j]), score)
             ELSE fuzzy_column_first(cols, candidates, j + 1, b, bs)

\* lines 161-167: the loop over the columns from the j-th on
RECURSIVE fuzzy_column(_, _, _, _, _)
fuzzy_column(cols, candidates, j, b, bs) ==
    IF j > Len(cols) THEN <<b, bs>>
    ELSE LET score == max_ratio(cols[j], candidates, <<0, 1>>)
         IN  IF FracGT(score, bs)
             THEN fuzzy_column(cols, candidates, j + 1, StrV(cols[j]), score)
             ELSE fuzzy_column(cols, candidates, j + 1, b, bs)

\* find_column(df, candidates) on the column names of df: the column of the
\* first candidate that some column equals once cleaned, else the first
\* column of best similarity to a candidate if that is >= 0.80, else None
find_column(cols, candidates) ==
    LET hits == {ij \in (1..Len(candidates)) \X (1..Len(cols)) :
                    clean_colname(cols[ij[2]]) = clean_colname(candidates[ij[1]])}
    IN  IF hits # {}
        THEN LET i == SetMin({ij[1] : ij \in hits})
                 j == SetMin({ij[2] : ij \in {h \in hits : h[1] = i}})
             IN  StrV(cols[j])
        ELSE LET r == fuzzy_column(cols, candidates, 1, None, <<0, 1>>)
             IN  IF FracGE(r[2], ColumnThreshold) THEN r[1] ELSE None

guess_brand_model(cols) ==
    <<find_column(cols, PRIORITY_BRAND_CANDS), find_column(cols, PRIORITY_MODEL_CANDS)>>

\* str.split(): the whitespace-separated tokens of s, in order
RECURSIVE split(_, _)
split(s, word) ==
    IF s = <<>> THEN (IF word = <<>> THEN <<>> ELSE <<word>>)
    ELSE IF IsSpace(Head(s))
    THEN (IF word = <<>> THEN <<>> ELSE <<word>>) \o split(Tail(s), <<>>)
    ELSE split(Tail(s), Append(word, Head(s)))

\* " ".join(tokens)
RECURSIVE join(_)
join(tokens) ==
    IF tokens = <<>> THEN <<>>
    ELSE IF Len(tokens) = 1 THEN tokens[1]
    ELSE tokens[1] \o <<" ">> \o join(Tail(tokens))

\* str.isupper(): some cased character, and no lower-case one
isupper(s) ==
    /\ \E i \in 1..Len(s) : s[i] \in Range(UpperCase)
    /\ \A i \in 1..Len(s) : s[i] \notin Range(LowerCase)

\* split_brand_from_model with the whole model kept next to the brand
split_brand_from_model_keep(model_val) ==
    IF model_val = <<>> THEN <<None, StrV(model_val)>>
    ELSE LET tokens == split(strip(model_val), <<>>)
         IN  IF Len(tokens) <= 1 THEN <<None, StrV(model_val)>>
             ELSE LET first == tokens[1]
                  IN  IF /\ first # <<>>
                         /\ (isupper(<<first[1]>>) \/ isupper(first))
                         /\ 2 <= Len(first) /\ Len(first) <= 12
                      THEN <<StrV(first), StrV(model_val)>>
                      ELSE <<None, StrV(model_val)>>

\* split_brand_from_model(model_val): <<brand or None, model>>
split_brand_from_model(model_val) ==
    IF model_val = <<>> THEN <<None, StrV(model_val)>>
    ELSE LET tokens == split(strip(model_val), <<>>)
         IN  IF Len(tokens) <= 1 THEN <<None, StrV(model_val)>>
             ELSE LET first == tokens[1]
                  IN  IF /\ first # <<>>
                         /\ (isupper(<<first[1]>>) \/ isupper(first))
                         /\ 2 <= Len(first) /\ Len(first) <= 12
                      THEN <<StrV(first), StrV(strip(join(Tail(tokens))))>>
                      ELSE <<None, StrV(model_val)>>

-----------------------------------------------------------------------------
(* Row -> normalized attribute dict: row_to_attributes                      *)

\* best_canonical(colname) as a function of the name. The alias loop keeps
\* the first alias, in the order of ALIAS_TO_CANON, that reaches the best
\* score: it lies among the aliases of the first canonical key that has
\* one, whatever the order inside that key's alias set.
\* lines 144-149: the verdict on the best canonical key found
canon_stage(r) ==
    IF r[1] # None /\ FracGE(r[2], CanonThreshold) THEN r[1] ELSE None

\* lines 126-149: the fuzzy pass over the aliases, whose scores are sc, and
\* the pass over the canonical keys that follows it
fuzzy_stage(cleaned, sc) ==
    LET top   == {a \in DOMAIN sc : \A b \in DOMAIN sc : FracGE(sc[a], sc[b])}
        g     == SetMin({GroupOf[a] : a \in top})
        a0    == CHOOSE a \in top : GroupOf[a] = g
        hit   == FracGT(sc[a0], <<0, 1>>)
        b2    == IF hit THEN StrV(ALIAS_TO_CANON[a0]) ELSE None
        bs2   == IF hit THEN sc[a0] ELSE <<0, 1>>
    IN  IF b2 # None /\ FracGE(bs2, AliasThreshold)
        THEN b2
        ELSE canon_stage(canon_loop(cleaned, 1, b2, bs2))

\* lines 114-149 on the cleaned name
lookup_stage(cleaned) ==
    IF cleaned \in DOMAIN ALIAS_TO_CANON
    THEN StrV(ALIAS_TO_CANON[cleaned])
    ELSE fuzzy_stage(cleaned,
                     [a \in DOMAIN ALIAS_TO_CANON |-> alias_score(cleaned, a)])

\* best_canonical as one function of the column name
best_canonical(name) ==
    IF name = <<>> THEN None ELSE lookup_stage(clean_colname(name))

\* row.get(col, ""): the cell of the first column named col
get(row, cols, col) ==
    IF \E i \in 1..Len(cols) : cols[i] = col.s
    THEN row[SetMin({i \in 1..Len(cols) : cols[i] = col.s})]
    ELSE StrV(<<>>)

\* bool(x) of a str or None
truthy(x) == x # None /\ x.s # <<>>

\* attributes.setdefault(canon, val): the first value under a key is kept
dict_set_keepfirst(items, k, v) ==
    IF \E i \in 1..Len(items) : items[i][1] = k
    THEN items
    ELSE Append(items, <<k, v>>)

\* attributes[canon] = val on a dict kept as the sequence of its items
dict_set(items, k, v) ==
    IF \E i \in 1..Len(items) : items[i][1] = k
    THEN [i \in 1..Len(items) |-> IF items[i][1] = k THEN <<k, v>> ELSE items[i]]
    ELSE Append(items, <<k, v>>)

\* lines 309-316: the loop over row.items() from the i-th column on
RECURSIVE attributes_from(_, _, _, _, _, _)
attributes_from(row, cols, brand_col, model_col, i, attributes) ==
    IF i > Len(cols) THEN attributes
    ELSE IF StrV(cols[i]) = brand_col \/ StrV(cols[i]) = model_col
    THEN attributes_from(row, cols, brand_col, model_col, i + 1, attributes)
    ELSE LET canon == AttrKey(best_canonical(cols[i]), cols[i])
         IN  attributes_from(row, cols, brand_col, model_col, i + 1,
                             dict_set(attributes, canon.s, row[i]))

\* line 305 without its test: no row is rejected there
rejected_never(brand_val, model_val) == FALSE

\* line 305: not is_meaningful(brand_val) or not is_meaningful(model_val)
rejected(brand_val, model_val) ==
    ~is_meaningful(brand_val) \/ ~is_meaningful(model_val)

\* row_to_attributes(row, brand_col, model_col): the result (brand, model,
\* attributes), with the locals brand_val and model_val as they are before
\* (raw_) and after the split of lines 299-303
row_to_attributes(row, cols, brand_col, model_col) ==
    LET raw_brand == IF truthy(brand_col)
                     THEN StrV(strip(str(get(row, cols, brand_col))))
                     ELSE StrV(<<>>)
        raw_model == IF truthy(model_col)
                     THEN StrV(strip(str(get(row, cols, model_col))))
                     ELSE StrV(<<>>)
        try       == ~is_meaningful(raw_brand) /\ is_meaningful(raw_model)
        guess     == split_brand_from_model(raw_model.s)
        taken     == try /\ truthy(guess[1])
        brand_val == IF taken THEN guess[1] ELSE raw_brand
        model_val == IF taken THEN guess[2] ELSE raw_model
    IN  IF rejected(brand_val, model_val)
        THEN [raw_brand |-> raw_brand, raw_model |-> raw_model,
              brand_val |-> brand_val, model_val |-> model_val,
              brand |-> None, model |-> None, attributes |-> <<>>]
        ELSE [raw_brand |-> raw_brand, raw_model |-> raw_model,
              brand_val |-> brand_val, model_val |-> model_val,
              brand |-> brand_val, model |-> model_val,
              attributes |-> attributes_from(row, cols, brand_col, model_col, 1, <<>>)]

-----------------------------------------------------------------------------
(* Safe JSON IO per brand: brand_file_path, load_brand_db, save_brand_db    *)

IsSafeChar(c) ==
    c \in Range(UpperCase) \/ c \in Range(LowerCase) \/ IsDigit(c) \/ c \in {"_", "-"}

\* re.sub(r"[^a-zA-Z0-9_\-]+", "_", s): every run of other characters
\* becomes one underscore
RECURSIVE sanitize(_, _)
sanitize(s, in_run) ==
    IF s = <<>> THEN <<>>
    ELSE IF IsSafeChar(Head(s)) THEN <<Head(s)>> \o sanitize(Tail(s), FALSE)
    ELSE IF in_run THEN sanitize(Tail(s), TRUE)
    ELSE <<"_">> \o sanitize(Tail(s), TRUE)

\* brand_file_path(brand): the file name under OUTPUT_DIR
brand_file_path(brand) == sanitize(strip(brand), FALSE) \o <<".","j","s","o","n">>

\* the file a name designates: a file system that ignores case takes two
\* names that differ in case for the same file
fs_name(path) == IF fold_case THEN lower(path) ELSE path

\* json.dump of an attribute value: a JSON string, number or array
json_scalar(v) ==
    IF v.t = "str" THEN [t |-> "jstr", s |-> v.s, n |-> 0, items |-> <<>>]
    ELSE [t |-> "jnum", s |-> str(v), n |-> 0, items |-> <<>>]

json_value(v) ==
    IF v.t = "list"
    THEN [t |-> "jarr", s |-> <<>>, n |-> 0,
          items |-> [i \in 1..Len(v.items) |-> json_scalar(v.items[i])]]
    ELSE json_scalar(v)

\* json.load of a value: a number with a fraction is a float, one without
\* is an int
python_scalar(j) ==
    IF j.t = "jstr" THEN StrV(j.s)
    ELSE LET m == numeric_prefix(j.s)
         IN  IF \E i \in 1..Len(j.s) : j.s[i] = "."
             THEN str_to_float(m[1], m[2])
             ELSE IntV(str_to_int(m[1]))

python_value(j) ==
    IF j.t = "jarr"
    THEN ListV([i \in 1..Len(j.items) |-> python_scalar(j.items[i])])
    ELSE python_scalar(j)

\* json.dump(data, f): the document written to the file
json_dump(data) ==
    [valid |-> TRUE, brand |-> data.brand,
     phones |-> [id \in DOMAIN data.phones |->
                   [id |-> data.phones[id].id,
                    brand |-> data.phones[id].brand,
                    model |-> data.phones[id].model,
                    attributes |-> [k \in DOMAIN data.phones[id].attributes |->
                                      json_value(data.phones[id].attributes[k])]]]]

\* json.load(f) of a complete document
json_load(doc) ==
    [brand |-> doc.brand,
     phones |-> [id \in DOMAIN doc.phones |->
                   [id |-> doc.phones[id].id,
                    brand |-> doc.phones[id].brand,
                    model |-> doc.phones[id].model,
                    attributes |-> [k \in DOMAIN doc.phones[id].attributes |->
                                      python_value(doc.phones[id].attributes[k])]]]]

\* a file opened for writing and not written to its end: not a JSON document
Truncated == [valid |-> FALSE, brand |-> <<>>, phones |-> EmptyDict]

\* load_brand_db raises: the file exists and json.load cannot parse it
load_raises(d, brand) ==
    LET path == fs_name(brand_file_path(brand))
    IN  path \in DOMAIN d /\ ~d[path].valid

\* load_brand_db that never reads the file
load_brand_db_fresh(d, brand) == [brand |-> brand, phones |-> EmptyDict]

load_brand_db(d, brand) ==
    LET path == fs_name(brand_file_path(brand))
    IN  IF path \in DOMAIN d
        THEN json_load(d[path])
        ELSE [brand |-> brand, phones |-> EmptyDict]

save_brand_db(d, brand, data) ==
    SetKey(d, fs_name(brand_file_path(brand)), json_dump(data))

\* lines 361-367 without the test: the entry is initialized for every row
with_phone_reset(phones, phone_id, brand, model) ==
    SetKey(phones, phone_id,
           [id |-> phone_id, brand |-> brand, model |-> model, attributes |-> EmptyDict])

\* the new entry with its brand and model fields exchanged
with_phone_swapped(phones, phone_id, brand, model) ==
    IF phone_id \notin DOMAIN phones
    THEN SetKey(phones, phone_id,
                [id |-> phone_id, brand |-> model, model |-> brand, attributes |-> EmptyDict])
    ELSE phones

\* lines 361-367: phones with an entry for phone_id, initialized if new
with_phone(phones, phone_id, brand, model) ==
    IF phone_id \notin DOMAIN phones
    THEN SetKey(phones, phone_id,
                [id |-> phone_id, brand |-> brand, model |-> model, attributes |-> EmptyDict])
    ELSE phones

\* the document made of the row's entity alone
merged_into_alone(db, brand, model, attrs) ==
    LET phone_id == stable_phone_id(brand, model)
        phones   == with_phone(EmptyDict, phone_id, brand, model)
    IN  [db EXCEPT !.phones =
            [phones EXCEPT ![phone_id].attributes = merge_attributes(@, attrs)]]

\* lines 357-373: the loaded document db with the row merged in
merged_into(db, brand, model, attrs) ==
    LET phone_id == stable_phone_id(brand, model)
        phones   == with_phone(db.phones, phone_id, brand, model)
    IN  [db EXCEPT !.phones =
            [phones EXCEPT ![phone_id].attributes = merge_attributes(@, attrs)]]

\* lines 356-373: the document of the brand with the row merged in
merged_db(d, brand, model, attrs) ==
    merged_into(load_brand_db(d, brand), brand, model, attrs)

\* lines 356-374: one row loaded, merged and saved
upsert(d, brand, model, attrs) ==
    save_brand_db(d, brand, merged_db(d, brand, model, attrs))

\* os.makedirs(OUTPUT_DIR, exist_ok=True) that empties the directory
makedirs_clean(d) == EmptyDisk

\* os.makedirs(OUTPUT_DIR, exist_ok=True): an existing directory is kept
\* with its files
makedirs(d) == d

-----------------------------------------------------------------------------
(* The CSV files of INPUT_DIR                                               *)

\* File A: brand, model and RAM columns
FileA ==
    [path |-> "a.csv", read |-> "ok",
     columns |-> <<<<"b","r","a","n","d">>, <<"m","o","d","e","l">>, <<"R","A","M">>>>,
     rows |-> <<<<StrV(<<"S","a","m","s","u","n","g">>), StrV(<<"G","a","l","a","x","y"," ","S","2","1">>), StrV(<<"8","G","B">>)>>>>]

\* File B: no brand column, the brand leads the model
FileB ==
    [path |-> "b.csv", read |-> "ok",
     columns |-> <<<<"m","o","d","e","l">>, <<"S","t","o","r","a","g","e">>>>,
     rows |-> <<<<StrV(<<"S","a","m","s","u","n","g"," ","G","a","l","a","x","y"," ","S","2","1">>), StrV(<<"1","2","8","G","B">>)>>>>]

\* the brand of File A in lower case, and a row with an empty brand cell
FileC ==
    [path |-> "c.csv", read |-> "ok",
     columns |-> <<<<"B","r","a","n","d">>, <<"M","o","d","e","l">>, <<"R","A","M">>>>,
     rows |-> <<<<StrV(<<"s","a","m","s","u","n","g">>), StrV(<<"G","a","l","a","x","y"," ","S","2","1">>), StrV(<<"1","2","G","B">>)>>,
              <<NaN, StrV(<<"A","p","p","l","e"," ","i","P","h","o","n","e">>), StrV(<<"4","G","B">>)>>>>]

\* a model column found by similarity; rows the split cannot resolve around one it can
FileD ==
    [path |-> "d.csv", read |-> "ok",
     columns |-> <<<<"M","o","d","e","l","s">>, <<"S","t","o","r","a","g","e">>>>,
     rows |-> <<<<StrV(<<"N","A"," ","P","h","o","n","e">>), StrV(<<"6","4","G","B">>)>>,
              <<StrV(<<" "," ","A","p","p","l","e"," "," "," ","i","P","h","o","n","e"," "," ","1","3"," ">>), StrV(<<"2","5","6","G","B">>)>>,
              <<StrV(<<"g","a","l","a","x","y"," ","S","2","1">>), StrV(<<"3","2","G","B">>)>>,
              <<StrV(<<"S","a","m","s","u","n","g"," ","N","/","A">>), StrV(<<"1","6","G","B">>)>>>>]

\* brands and models that contain the separator of the id
FileE ==
    [path |-> "e.csv", read |-> "ok",
     columns |-> <<<<"b","r","a","n","d">>, <<"m","o","d","e","l">>>>,
     rows |-> <<<<StrV(<<"a","|","b">>), StrV(<<"c">>)>>,
              <<StrV(<<"a">>), StrV(<<"b","|","c">>)>>>>]

\* brand and model columns found by similarity only, two columns close to
\* the model candidates
FileF ==
    [path |-> "f.csv", read |-> "ok",
     columns |-> <<<<"B","r","n","d">>, <<"M","o","d","l">>, <<"M","o","d","e","l"," ","N","a","m">>>>,
     rows |-> <<<<StrV(<<"N","o","k","i","a">>), StrV(<<"x">>), StrV(<<"3","3","1","0">>)>>>>]

\* a model column at similarity 0.80 exactly, and two columns for one key
FileG ==
    [path |-> "g.csv", read |-> "ok",
     columns |-> <<<<"M","o","d","l","e">>, <<"R","A","M">>, <<"r","a","m">>>>,
     rows |-> <<<<StrV(<<"N","o","k","i","a"," ","3","3","1","0">>), StrV(<<"8","G","B">>), StrV(<<"N","/","A">>)>>>>]

\* a brand whose file name is that of a brand of File E
FileH ==
    [path |-> "h.csv", read |-> "ok",
     columns |-> <<<<"b","r","a","n","d">>, <<"m","o","d","e","l">>>>,
     rows |-> <<<<StrV(<<"a","_","b">>), StrV(<<"d">>)>>>>]

\* a file pd.read_csv cannot open or parse
FileErr ==
    [path |-> "err.csv", read |-> "error",
     columns |-> <<>>,
     rows |-> <<>>]

\* a file that is not UTF-8 and reads as Latin-1
FileLatin ==
    [path |-> "latin.csv", read |-> "decode_error",
     columns |-> <<<<"b","r","a","n","d">>, <<"m","o","d","e","l">>, <<"S","t","o","r","a","g","e">>>>,
     rows |-> <<<<StrV(<<"S","a","m","s","u","n","g">>), StrV(<<"G","a","l","a","x","y"," ","S","2","1">>), StrV(<<"2","5","6","G","B">>)>>>>]

\* a file that is not UTF-8 and that the Latin-1 retry cannot parse either
FileLatinErr ==
    [path |-> "latin_err.csv", read |-> "decode_error_retry_error",
     columns |-> <<>>,
     rows |-> <<>>]

\* a file with a header and no row
FileEmpty ==
    [path |-> "empty.csv", read |-> "ok",
     columns |-> <<<<"b","r","a","n","d">>, <<"m","o","d","e","l">>>>,
     rows |-> <<>>]

\* a file without a brand or model column
FileNoModel ==
    [path |-> "nomodel.csv", read |-> "ok",
     columns |-> <<<<"R","A","M">>, <<"S","t","o","r","a","g","e">>>>,
     rows |-> <<<<StrV(<<"8","G","B">>), StrV(<<"1","2","8","G","B">>)>>>>]

\* what glob.glob can return for INPUT_DIR in a run: the files present then,
\* in the order of the listing
Listings ==
    { <<>>, <<FileA>>, <<FileB>>, <<FileA, FileB>>, <<FileB, FileA>>, <<FileA, FileC>>,
      <<FileD>>, <<FileE>>, <<FileErr, FileLatin>>, <<FileLatinErr, FileA>>,
      <<FileEmpty, FileNoModel, FileB>>, <<FileF, FileG>>, <<FileE, FileH>> }

Files == UNION {Range(l) : l \in Listings}

\* guess_brand_model, tabulated for the headers of the files
GuessOf == [cols \in {f.columns : f \in Files} |-> guess_brand_model(cols)]

\* number of runs of main
MaxBatchRuns == 2

-----------------------------------------------------------------------------
(* Main processing: main and process_csv_file                               *)

\* the variables of the other operations
others == <<existing, log, resolved, colname, cpc, visited, best, best_score, key, results, runs,
            writers>>

\* a line of LOG_FILE
Line(tag, path, n) == [tag |-> tag, path |-> path, n |-> n]

InitBatch ==
    /\ MergeIdle /\ IdIdle /\ CanonIdle
    /\ fold_case \in BOOLEAN
    /\ disk = EmptyDisk
    /\ LOG_FILE = <<>>
    /\ csv_files = <<>>
    /\ df = NoDf
    /\ bpc = "idle"
    /\ ident = NoIdent
    /\ hist = <<>>
    /\ faults = 0
    /\ batch_runs = 0
    /\ WritersIdle

\* no run of main is in progress
Ended == bpc \in {"idle", "done", "aborted_read", "aborted_load", "aborted_write", "killed"}

\* lines 20 and 381-391: a run starts, with a fresh log and the listing of
\* INPUT_DIR
Main ==
    /\ Ended
    /\ batch_runs < MaxBatchRuns
    /\ batch_runs' = batch_runs + 1
    /\ disk' = makedirs(disk)
    /\ \E listing \in Listings :
          /\ csv_files' = listing
          /\ IF listing = <<>>
             THEN /\ LOG_FILE' = <<Line("START", "", 0), Line("INFO", "", 0)>>
                  /\ bpc' = "done"
             ELSE /\ LOG_FILE' = <<Line("START", "", 0)>>
                  /\ bpc' = "files"
    /\ df' = NoDf
    /\ UNCHANGED <<fold_case, ident, hist, faults>>
    /\ UNCHANGED others

\* the last resort taking the first column whatever its name
last_resort_first(cols) == IF cols # <<>> THEN StrV(cols[1]) ELSE None

\* lines 334-339: the last resort for the model column
last_resort(cols) ==
    LET possible == {i \in 1..Len(cols) :
                        clean_colname(cols[i]) \in
                            { <<"n","a","m","e">>, <<"t","i","t","l","e">>,
                              <<"p","r","o","d","u","c","t","_","n","a","m","e">> }}
    IN  IF possible # {} THEN StrV(cols[SetMin(possible)]) ELSE None

\* lines 331-339: the columns guess_brand_model found, or the last resort
\* for the model column when it found neither
identity_columns(cols, guess) ==
    IF guess[1] = None /\ guess[2] = None
    THEN <<None, last_resort(cols)>>
    ELSE guess

\* lines 394 and 320-343: the next file is read and its identity columns
\* are guessed
ReadFile ==
    /\ bpc = "files"
    /\ csv_files # <<>>
    /\ \E f \in {Head(csv_files)}, guess \in {GuessOf[Head(csv_files).columns]} :
       LET to     == Append(LOG_FILE, Line("FILE", f.path, 0))
           nocols == guess[1] = None /\ guess[2] = None
           model_col == identity_columns(f.columns, guess)[2]
           warned == IF nocols THEN Append(to, Line("WARN", f.path, 0)) ELSE to
       IN  /\ csv_files' = Tail(csv_files)
           /\ IF f.read = "decode_error_retry_error"
              THEN \* the retry raises inside the except clause
                   /\ bpc' = "aborted_read"
                   /\ faults' = faults + 1
                   /\ LOG_FILE' = to
                   /\ df' = NoDf
              ELSE IF f.read = "error"
              THEN /\ LOG_FILE' = Append(to, Line("SKIP_READ", f.path, 0))
                   /\ UNCHANGED <<bpc, faults, df>>
              ELSE IF f.rows = <<>>
              THEN /\ LOG_FILE' = Append(to, Line("SKIP_EMPTY", f.path, 0))
                   /\ UNCHANGED <<bpc, faults, df>>
              ELSE IF model_col = None
              THEN /\ LOG_FILE' = Append(warned, Line("SKIP_NOMODEL", f.path, 0))
                   /\ UNCHANGED <<bpc, faults, df>>
              ELSE /\ LOG_FILE' = warned
                   /\ df' = [path |-> f.path, columns |-> f.columns,
                             brand_col |-> guess[1], model_col |-> model_col,
                             rows |-> f.rows, n_rows |-> 0]
                   /\ bpc' = "rows"
                   /\ UNCHANGED faults
    /\ UNCHANGED <<fold_case, disk, ident, hist, batch_runs>>
    /\ UNCHANGED others

\* line 349: row_to_attributes with the identity columns of the file
row_with(row, cols, ids) == row_to_attributes(row, cols, ids[1], ids[2])

\* row_to_attributes, tabulated for the rows of the files
RowOf ==
    [x \in UNION {{<<f.rows[i], f.columns>> : i \in 1..Len(f.rows)} : f \in Files} |->
        row_with(x[1], x[2], identity_columns(x[2], GuessOf[x[2]]))]

\* the row the loop of line 348 is at
CurrentRow == RowOf[<<Head(df.rows), df.columns>>]

\* line 350: the row has a brand and a model
Accepted(r) == truthy(r.brand) /\ truthy(r.model)

\* lines 348-377: one iteration of the loop over the rows, without a
\* failure of the write
Row ==
    /\ bpc = "rows"
    /\ df.rows # <<>>
    /\ \E r \in {CurrentRow} :
       LET brand == strip(r.brand.s)
           model == strip(r.model.s)
       IN  /\ ident' = r
           /\ IF ~Accepted(r)
              THEN /\ df' = [df EXCEPT !.rows = Tail(@)]
                   /\ UNCHANGED <<disk, bpc, hist, faults>>
              ELSE IF load_raises(disk, brand)
              THEN \* json.load raises on the file of the brand
                   /\ bpc' = "aborted_load"
                   /\ faults' = faults + 1
                   /\ UNCHANGED <<disk, df, hist>>
              ELSE /\ disk' = upsert(disk, brand, model, r.attributes)
                   /\ hist' = Append(hist, [brand |-> brand, model |-> model,
                                            attributes |-> r.attributes])
                   /\ df' = [df EXCEPT !.rows = Tail(@), !.n_rows = @ + 1]
                   /\ UNCHANGED <<bpc, faults>>
    /\ UNCHANGED <<fold_case, LOG_FILE, csv_files, batch_runs>>
    /\ UNCHANGED others

\* the row r at hand reaches save_brand_db
InFlight(r) ==
    /\ Accepted(r)
    /\ ~load_raises(disk, strip(r.brand.s))

\* the file save_brand_db writes for the row r at hand
InFlightPath(r) == fs_name(brand_file_path(strip(r.brand.s)))

\* lines 211-214 raising: open() fails and leaves the file as it was, or
\* the write fails after open(path, "w") has emptied the file; the
\* exception leaves process_csv_file and main
RowWriteFails ==
    /\ bpc = "rows"
    /\ df.rows # <<>>
    /\ \E r \in {CurrentRow}, opened \in BOOLEAN :
          /\ InFlight(r)
          /\ ident' = r
          /\ disk' = IF opened THEN SetKey(disk, InFlightPath(r), Truncated)
                               ELSE disk
    /\ bpc' = "aborted_write"
    /\ faults' = faults + 1
    /\ UNCHANGED <<fold_case, LOG_FILE, csv_files, df, hist, batch_runs>>
    /\ UNCHANGED others

\* the process is terminated from outside: between two writes, or while
\* save_brand_db has the file open for writing
Kill ==
    /\ bpc \in {"files", "rows"}
    /\ \/ UNCHANGED disk
       \/ /\ bpc = "rows"
          /\ df.rows # <<>>
          /\ \E r \in {CurrentRow} :
                InFlight(r) /\ disk' = SetKey(disk, InFlightPath(r), Truncated)
    /\ bpc' = "killed"
    /\ faults' = faults + 1
    /\ UNCHANGED <<fold_case, LOG_FILE, csv_files, df, ident, hist, batch_runs>>
    /\ UNCHANGED others

\* line 379: the rows of the file are exhausted
EndFile ==
    /\ bpc = "rows"
    /\ df.rows = <<>>
    /\ LOG_FILE' = Append(LOG_FILE, Line("OK", df.path, df.n_rows))
    /\ bpc' = "files"
    /\ df' = NoDf
    /\ UNCHANGED <<fold_case, disk, csv_files, ident, hist, faults, batch_runs>>
    /\ UNCHANGED others

\* lines 397-398: the files are exhausted
EndMain ==
    /\ bpc = "files"
    /\ csv_files = <<>>
    /\ LOG_FILE' = Append(LOG_FILE, Line("DONE", "", 0))
    /\ bpc' = "done"
    /\ UNCHANGED <<fold_case, disk, csv_files, df, ident, hist, faults, batch_runs>>
    /\ UNCHANGED others

NextBatch == Main \/ ReadFile \/ Row \/ RowWriteFails \/ Kill \/ EndFile \/ EndMain

SpecBatch == InitBatch /\ [][NextBatch]_vars

-----------------------------------------------------------------------------
(* Claims about the rows: brand splitting and rejection                     *)

AllUpper(s) == \A i \in 1..Len(s) : s[i] \in Range(UpperCase)

M_Samsung_Galaxy == <<"S","a","m","s","u","n","g"," ","G","a","l","a","x","y"," ","S","2","1">>

M_Apple_iPhone_spaced == <<"A","p","p","l","e"," "," "," ","i","P","h","o","n","e"," "," ","1","3">>

M_iPhone_13 == <<"i","P","h","o","n","e"," ","1","3">>

B_Apple == <<"A","p","p","l","e">>

M_Samsung_NA == <<"S","a","m","s","u","n","g"," ","N","/","A">>

\* C12: when the row's brand is not meaningful and its model is, and the
\* model has at least two whitespace-separated tokens of which the first
\* starts with an upper-case letter (or is all upper case) and has 2 to 12
\* characters, the split makes the first token the brand and the other
\* tokens, joined by single spaces, the model ("Samsung Galaxy S21" gives
\* "Samsung" and "Galaxy S21"); when the row's brand is meaningful, the
\* split leaves brand and model as they are.
C12_BrandSplitting ==
    ident # NoIdent =>
        LET tokens == split(ident.raw_model.s, <<>>)
            applies ==
                /\ ~is_meaningful(ident.raw_brand)
                /\ is_meaningful(ident.raw_model)
                /\ Len(tokens) >= 2
                /\ (tokens[1][1] \in Range(UpperCase) \/ AllUpper(tokens[1]))
                /\ Len(tokens[1]) >= 2 /\ Len(tokens[1]) <= 12
        IN  /\ applies =>
                  /\ ident.brand_val = StrV(tokens[1])
                  /\ ident.model_val = StrV(join(Tail(tokens)))
            /\ (ident.raw_brand = StrV(<<>>) /\ ident.raw_model = StrV(M_Samsung_Galaxy)) =>
                  /\ ident.brand = StrV(B_Samsung)
                  /\ ident.model = StrV(M_Galaxy)
            /\ is_meaningful(ident.raw_brand) =>
                  /\ ident.brand_val = ident.raw_brand
                  /\ ident.model_val = ident.raw_model

\* C12 witness: a row without brand whose model "Apple   iPhone  13" was
\* split into "Apple" and "iPhone 13"
C12_Witness ==
    /\ ident.raw_brand = StrV(<<>>)
    /\ ident.raw_model = StrV(M_Apple_iPhone_spaced)
    /\ ident.brand = StrV(B_Apple)
    /\ ident.model = StrV(M_iPhone_13)

\* brand or model is still not meaningful after the split attempt
StillNotMeaningful(r) == ~is_meaningful(r.brand_val) \/ ~is_meaningful(r.model_val)

\* C13: a row whose brand or model is still not meaningful after the split
\* attempt produces no entity and no load or write of a JSON file, raises
\* no error, and the loop goes on with the next row of the file: the only
\* steps from such a row are the skip and the termination from outside,
\* and both leave the files as they are.
C13_RowRejection ==
    [][(bpc = "rows" /\ df.rows # <<>> /\ StillNotMeaningful(CurrentRow)) =>
          /\ disk' = disk
          /\ hist' = hist
          /\ \/ bpc' = "killed"
             \/ /\ bpc' = "rows"
                /\ faults' = faults
                /\ df' = [df EXCEPT !.rows = Tail(@)]
                /\ ident'.brand = None /\ ident'.model = None]_vars

\* C13 witness: the file with three unresolvable rows is at its end, the
\* one resolvable row between them was stored
C13_Witness ==
    /\ bpc = "rows"
    /\ df.path = "d.csv"
    /\ df.rows = <<>>
    /\ df.n_rows = 1
    /\ ident.raw_model = StrV(M_Samsung_NA)
    /\ ident.brand = None
    /\ Len(hist) = 1
    /\ hist[1].brand = B_Apple
    /\ fs_name(brand_file_path(B_Apple)) \in DOMAIN disk

-----------------------------------------------------------------------------
(* Claims about the store                                                   *)

V_128GB == StrV(<<"1","2","8","G","B">>)

B_samsung == <<"s","a","m","s","u","n","g">>

\* the rows upserted so far replayed on an empty OUTPUT_DIR, one after the
\* other in one run
RECURSIVE Replay(_)
Replay(h) ==
    IF h = <<>> THEN EmptyDisk
    ELSE LET last == h[Len(h)]
         IN  upsert(Replay(SubSeq(h, 1, Len(h) - 1)), last.brand, last.model, last.attributes)

\* the rows of File A and File B, and nothing else, were upserted from an
\* empty store by runs that ended well
FilesAandB ==
    /\ faults = 0
    /\ bpc = "done"
    /\ Len(hist) = 2
    /\ {hist[1].attributes, hist[2].attributes} =
           {<<<<K_ram, V_8GB>>>>, <<<<K_storage, V_128GB>>>>}

\* the entities of all files of OUTPUT_DIR, as json.load returns them
Entities == UNION {Range(json_load(disk[p]).phones) : p \in DOMAIN disk}

\* C14 as stated: after File A and File B, both rows have the same id and
\* the Samsung partition holds one entity with attributes
\* {ram: "8GB", storage: "128GB"}.
C14_EndToEnd_AsStated ==
    FilesAandB =>
        /\ stable_phone_id(hist[1].brand, hist[1].model) =
               stable_phone_id(hist[2].brand, hist[2].model)
        /\ DOMAIN disk = {fs_name(brand_file_path(B_Samsung))}
        /\ \E e \in Entities :
               /\ Entities = {e}
               /\ e.attributes = (K_ram :> V_8GB @@ K_storage :> V_128GB)

\* C14 amended: after File A and File B, both rows have the same id and the
\* Samsung partition holds one entity, with attributes
\* {ram: 8, storage: 128}: the integers the merge made of "8GB" and "128GB".
C14_EndToEnd ==
    FilesAandB =>
        /\ stable_phone_id(hist[1].brand, hist[1].model) =
               stable_phone_id(hist[2].brand, hist[2].model)
        /\ DOMAIN disk = {fs_name(brand_file_path(B_Samsung))}
        /\ \E e \in Entities :
               /\ Entities = {e}
               /\ e.id = stable_phone_id(B_Samsung, M_Galaxy)
               /\ e.brand = B_Samsung
               /\ e.model = M_Galaxy
               /\ e.attributes = (K_ram :> IntV(8) @@ K_storage :> IntV(128))

\* C14 witness: File B's row, whose brand came from the split, was stored
\* first and File A's row was merged into its entity
C14_Witness ==
    /\ FilesAandB
    /\ hist[1].attributes = <<<<K_storage, V_128GB>>>>
    /\ hist[2].attributes = <<<<K_ram, V_8GB>>>>
    /\ \E e \in Entities : DOMAIN e.attributes = {K_ram, K_storage}

\* what a file keeps of its entities from one state of OUTPUT_DIR to the
\* next: every id, with its id, brand and model fields and with all its
\* attribute keys
Kept(d1, d2) ==
    \A p \in DOMAIN d1 :
        /\ p \in DOMAIN d2
        /\ \A id \in DOMAIN d1[p].phones :
               /\ id \in DOMAIN d2[p].phones
               /\ d2[p].phones[id].id = d1[p].phones[id].id
               /\ d2[p].phones[id].brand = d1[p].phones[id].brand
               /\ d2[p].phones[id].model = d1[p].phones[id].model
               /\ DOMAIN d1[p].phones[id].attributes \subseteq DOMAIN d2[p].phones[id].attributes

\* C15: every completed upsert of a row keeps, in every file, every entity
\* that was there, with its id, brand and model fields and all its
\* attribute keys; an entity it creates carries the brand and model of the
\* row that created it.
C15_EntitiesKept ==
    [][hist' # hist =>
          /\ Kept(disk, disk')
          /\ LET row  == hist'[Len(hist')]
                 path == fs_name(brand_file_path(row.brand))
                 id   == stable_phone_id(row.brand, row.model)
             IN  (path \notin DOMAIN disk \/ id \notin DOMAIN disk[path].phones) =>
                     /\ disk'[path].phones[id].id = id
                     /\ disk'[path].phones[id].brand = row.brand
                     /\ disk'[path].phones[id].model = row.model]_vars

\* C15 witness: on a file system that ignores case, a row of brand
\* "samsung" was merged in a later run into the entity a row of brand
\* "Samsung" created, which kept its brand field and its ram key
C15_Witness ==
    /\ fold_case
    /\ batch_runs = 2
    /\ Len(hist) >= 2
    /\ hist[1].brand = B_Samsung
    /\ hist[Len(hist)].brand = B_samsung
    /\ \E e \in Entities :
          /\ e.brand = B_Samsung
          /\ K_ram \in DOMAIN e.attributes
          /\ e.attributes[K_ram] = ListV(<<IntV(8), IntV(12)>>)

\* C16: over all files of OUTPUT_DIR there is at most one entity record per
\* id.
C16_OneEntityPerId ==
    \A p, q \in DOMAIN disk :
        p # q => (DOMAIN disk[p].phones) \cap (DOMAIN disk[q].phones) = {}

\* C17: after a termination from outside, the first fault of the store's
\* life, OUTPUT_DIR holds the merged effect of every row completed before
\* it, and nothing persisted before is lost or corrupted.
C17_CrashSafe ==
    (bpc = "killed" /\ faults = 1) =>
        \A p \in DOMAIN Replay(hist) :
            /\ p \in DOMAIN disk
            /\ disk[p].valid
            /\ \A id \in DOMAIN Replay(hist)[p].phones :
                   /\ id \in DOMAIN disk[p].phones
                   /\ disk[p].phones[id] = Replay(hist)[p].phones[id]

\* C18: no failure to read a file ends the run: the file is logged as
\* skipped and main goes on with the next file.
C18_ReadFailureIsolated ==
    /\ bpc # "aborted_read"
    /\ \A i \in 1..Len(LOG_FILE) :
          (LOG_FILE[i].tag = "FILE" /\ \E f \in Files : f.path = LOG_FILE[i].path /\ f.read \in {"error", "decode_error_retry_error"}) =>
              (i < Len(LOG_FILE) /\ LOG_FILE[i + 1].tag = "SKIP_READ")

\* C19: when the write of a file fails, the first fault of the store's
\* life, the run is over without an OK line for the file at hand, and
\* every file written before still holds what its last successful write
\* left.
C19_WriteFailureKeepsStore ==
    (bpc = "aborted_write" /\ faults = 1) =>
        /\ \A i \in 1..Len(LOG_FILE) : ~(LOG_FILE[i].tag = "OK" /\ LOG_FILE[i].path = df.path)
        /\ \A p \in DOMAIN Replay(hist) : p \in DOMAIN disk /\ disk[p] = Replay(hist)[p]

\* C20: as long as no run failed, OUTPUT_DIR is what one run over all the
\* rows upserted so far would have left, however the rows were divided
\* between runs: no run resets or drops what an earlier run wrote.
C20_AccumulatesAcrossRuns ==
    faults = 0 => disk = Replay(hist)

\* C20 witness: File A was processed by one run and File B by the next, and
\* the entity holds the attributes of both
C20_Witness ==
    /\ faults = 0
    /\ batch_runs = 2
    /\ bpc = "done"
    /\ Len(hist) = 2
    /\ hist[1].attributes = <<<<K_ram, V_8GB>>>>
    /\ hist[2].attributes = <<<<K_storage, V_128GB>>>>
    /\ Len(SelectSeq(LOG_FILE, LAMBDA l : l.tag = "OK")) = 1
    /\ \E e \in Entities :
          e.attributes = (K_ram :> IntV(8) @@ K_storage :> IntV(128))

-----------------------------------------------------------------------------
(* Algebraic properties of merge_attributes                                 *)

\* the orders in which the items of an incoming dict can be iterated
OrdersOf(incoming) ==
    { [i \in 1..Len(incoming) |-> incoming[p[i]]] :
          p \in Permutations(1..Len(incoming)) }

\* C21: the attributes a merge leaves are the same, as a mapping from keys
\* to values, whatever the order in which the (key, value) pairs of the
\* incoming dict are processed.
C21_OrderIndependent ==
    [][log' # log =>
          \A m \in OrdersOf(log'[Len(log')]) :
              merge_attributes(existing, m) = existing']_vars

\* C21 witness: a three-key row was merged into an entity that already held
\* ram and os, and it changed the entity
C21_Witness ==
    /\ Len(log) = 2
    /\ Len(LastRow) = 3
    /\ log[1] = <<<<K_os, V_Android14>>, <<K_ram, V_12GB>>>>
    /\ existing[K_ram] = ListV(<<IntV(12), IntV(8)>>)
    /\ K_color \in DOMAIN existing

\* the entity's attributes after the rows of a log, from no attributes
RECURSIVE Merged(_)
Merged(rows) ==
    IF rows = <<>> THEN EmptyDict
    ELSE merge_attributes(Merged(SubSeq(rows, 1, Len(rows) - 1)), rows[Len(rows)])

\* incoming[k] of an incoming dict that has the key
ValueOf(incoming, k) ==
    incoming[CHOOSE i \in 1..Len(incoming) : incoming[i][1] = k][2]

\* the part of the attributes under keys outside list_fields
Scalars(d) == [k \in (DOMAIN d) \ list_fields |-> d[k]]

\* the keys outside list_fields two incoming dicts share
SharedScalarKeys(A, B) == (KeysOf(A) \cap KeysOf(B)) \ list_fields

\* both dicts carry a meaningful value under k and the two are coerced to
\* different values
Conflict(A, B, k) ==
    /\ is_meaningful(ValueOf(A, k))
    /\ is_meaningful(ValueOf(B, k))
    /\ maybe_cast_number(ValueOf(A, k)) # maybe_cast_number(ValueOf(B, k))

IsPrefix(s, u) == Len(s) <= Len(u) /\ SubSeq(u, 1, Len(s)) = s

\* C25: under a key of list_fields every merge keeps the stored values in
\* place and in order and at most appends one value at the end: the stored
\* sequence before the merge (a bare scalar being a one-element sequence)
\* is a prefix of the stored sequence after it.
C25_FirstSeenOrder ==
    [][\A k \in (DOMAIN existing) \cap list_fields :
          /\ k \in DOMAIN existing'
          /\ IsPrefix(ItemsOf(existing, k), ItemsOf(existing', k))
          /\ Len(ItemsOf(existing', k)) <= Len(ItemsOf(existing, k)) + 1]_vars

\* C25 witness: ram holds 8, 12 and 6.7 in the order the rows brought them
C25_Witness ==
    /\ Len(log) = 3
    /\ K_ram \in DOMAIN existing
    /\ existing[K_ram] = ListV(<<IntV(8), IntV(12), FloatV(6, <<"7">>)>>)

\* C28: for the attributes E of the entity and every incoming dict M, a
\* third application of the merge of M changes nothing: keys, values and
\* scalar-versus-list shape are those the second application left. (The
\* step merges M into E a first time.)
C28_FixedPointAfterTwo ==
    [][log' # log =>
          \E M \in {log'[Len(log')]} :
              \E twice \in {merge_attributes(existing', M)} :
                  merge_attributes(twice, M) = twice]_vars

\* C28 witness: the last row was merged three times in a row; its second
\* merge still changed the entity (the scalar became a list), its third
\* did not
C28_Witness ==
    /\ Len(log) = 3
    /\ log[1] = log[2]
    /\ log[2] = log[3]
    /\ Merged(<<log[1]>>) # Merged(<<log[1], log[2]>>)
    /\ existing = Merged(<<log[1], log[2]>>)

-----------------------------------------------------------------------------
(* Role resolution of the identity columns                                  *)

\* the candidates of each role
RoleCands == [brand |-> PRIORITY_BRAND_CANDS, model |-> PRIORITY_MODEL_CANDS]

\* the best similarity of each column of the files to the candidates of
\* each role
RoleScore ==
    [col \in UNION {Range(f.columns) : f \in Files} |->
        [role \in DOMAIN RoleCands |-> max_ratio(col, RoleCands[role], <<0, 1>>)]]

\* the cleaned name of the column equals a cleaned candidate of the role
EqualsCandidate(col, role) ==
    \E i \in 1..Len(RoleCands[role]) :
        clean_colname(col) = clean_colname(RoleCands[role][i])

\* col is an answer the claim allows for the role on the columns cols
Resolves(cols, role, col) ==
    IF col = None
    THEN \A c \in Range(cols) : ~FracGE(RoleScore[c][role], ColumnThreshold)
    ELSE /\ col.s \in Range(cols)
         /\ FracGE(RoleScore[col.s][role], ColumnThreshold)
         /\ \A c \in Range(cols) : FracGE(RoleScore[col.s][role], RoleScore[c][role])
         /\ (\E c \in Range(cols) : EqualsCandidate(c, role))
                => /\ EqualsCandidate(col.s, role)
                   /\ FracGE(RoleScore[col.s][role], <<1, 1>>)

\* C26: the column find_column returns for a role has the highest best
\* similarity to the role's candidates among the columns of the file, and
\* that similarity is at least 0.80 (1 for a column whose cleaned name is a
\* candidate, which is then the one returned); it returns no column when
\* every column is below 0.80.
C26_RoleResolution ==
    [][(/\ bpc = "files"
        /\ csv_files # <<>>
        /\ csv_files' = Tail(csv_files)
        /\ Head(csv_files).read \in {"ok", "decode_error"}
        /\ Head(csv_files).rows # <<>>)
          => IF bpc' = "rows"
             THEN /\ Resolves(Head(csv_files).columns, "brand", df'.brand_col)
                  /\ Resolves(Head(csv_files).columns, "model", df'.model_col)
             ELSE Resolves(Head(csv_files).columns, "model", None)]_vars

\* C26 witness: in File F the third column was taken as the model column,
\* ahead of the second, which is close to the candidates too but less so
C26_Witness ==
    /\ bpc = "rows"
    /\ df.path = "f.csv"
    /\ df.brand_col = StrV(<<"B","r","n","d">>)
    /\ df.model_col = StrV(<<"M","o","d","e","l"," ","N","a","m">>)
    /\ FracGE(RoleScore[<<"M","o","d","l">>]["model"], ColumnThreshold)

-----------------------------------------------------------------------------
(* Files skipped as a whole                                                 *)

\* the number of lines of the log with one of the tags about the file path
CountLines(lines, tags, path) ==
    Cardinality({i \in 1..Len(lines) : lines[i].tag \in tags /\ lines[i].path = path})

SkipTags == {"SKIP_READ", "SKIP_EMPTY", "SKIP_NOMODEL"}

\* no column of the file is a model column: none is within 0.80 of a model
\* candidate and none is named name, title or product_name
NoModelColumn(f) ==
    \A c \in Range(f.columns) :
        /\ ~FracGE(RoleScore[c]["model"], ColumnThreshold)
        /\ clean_colname(c) \notin { <<"n","a","m","e">>, <<"t","i","t","l","e">>,
                                     <<"p","r","o","d","u","c","t","_","n","a","m","e">> }

\* the file is read and has no row, or no model column
ZeroRowsOrNoModel(f) ==
    /\ f.read \in {"ok", "decode_error"}
    /\ (f.rows = <<>> \/ NoModelColumn(f))

\* C27: a file without a data row, or without a column that resolves as the
\* model column, is skipped as a whole: its processing adds exactly one SKIP
\* line about it to the log and no OK line, leaves the store as it was, and
\* the batch goes on with the files that follow.
C27_FileSkipped ==
    [][(/\ bpc = "files"
        /\ csv_files # <<>>
        /\ csv_files' = Tail(csv_files)
        /\ ZeroRowsOrNoModel(Head(csv_files)))
          => /\ CountLines(LOG_FILE', SkipTags, Head(csv_files).path)
                    = CountLines(LOG_FILE, SkipTags, Head(csv_files).path) + 1
             /\ CountLines(LOG_FILE', {"OK"}, Head(csv_files).path)
                    = CountLines(LOG_FILE, {"OK"}, Head(csv_files).path)
             /\ disk' = disk
             /\ hist' = hist
             /\ df' = df
             /\ faults' = faults
             /\ bpc' = "files"]_vars

\* C27 witness: the file without rows and the file without a model column
\* were skipped with one line each, and the batch is at the rows of the
\* file that follows them
C27_Witness ==
    /\ bpc = "rows"
    /\ df.path = "b.csv"
    /\ CountLines(LOG_FILE, {"SKIP_EMPTY"}, "empty.csv") = 1
    /\ CountLines(LOG_FILE, {"SKIP_NOMODEL"}, "nomodel.csv") = 1
    /\ CountLines(LOG_FILE, {"OK"}, "empty.csv") = 0
    /\ CountLines(LOG_FILE, {"OK"}, "nomodel.csv") = 0

-----------------------------------------------------------------------------
(* Columns of one row that share a key                                      *)

\* the key row_to_attributes files each column of the files under
ColumnKey ==
    [col \in UNION {Range(f.columns) : f \in Files} |->
        AttrKey(best_canonical(col), col).s]

\* the positions of the columns that are not the identity columns
FreeColumns(cols, brand_col, model_col) ==
    {i \in 1..Len(cols) : StrV(cols[i]) # brand_col /\ StrV(cols[i]) # model_col}

\* C29: the incoming dict of an accepted row has one item per key its
\* non-identity columns map to, and the value of the item is the cell of
\* the last column, in column order, that maps to the key: the cells of the
\* earlier columns of the key are not in the dict, meaningful or not.
C29_LastColumnWins ==
    [][(/\ bpc = "rows"
        /\ df.rows # <<>>
        /\ df'.rows = Tail(df.rows)
        /\ Accepted(ident'))
          => LET row  == Head(df.rows)
                 free == FreeColumns(df.columns, df.brand_col, df.model_col)
                 last == {i \in free : \A j \in free :
                             j > i => ColumnKey[df.columns[j]] # ColumnKey[df.columns[i]]}
             IN  /\ Len(ident'.attributes) = Cardinality(last)
                 /\ \A i \in last :
                       <<ColumnKey[df.columns[i]], row[i]>> \in Range(ident'.attributes)]_vars

\* C29 witness: the row of File G, whose columns RAM ("8GB") and ram ("N/A")
\* both map to ram, was merged with the incoming dict {ram: "N/A"}, and its
\* entity has no ram
C29_Witness ==
    /\ df.path = "g.csv"
    /\ df.rows = <<>>
    /\ ColumnKey[<<"R","A","M">>] = ColumnKey[<<"r","a","m">>]
    /\ ident.attributes = <<<<K_ram, V_NA>>>>
    /\ hist # <<>>
    /\ hist[Len(hist)].attributes = ident.attributes
    /\ \A e \in Entities : K_ram \notin DOMAIN e.attributes

-----------------------------------------------------------------------------
(* Entity records                                                           *)

\* the documents of OUTPUT_DIR that are whole
Documents == {json_load(disk[p]) : p \in {q \in DOMAIN disk : disk[q].valid}}

\* C30: in every document of the store, every entry of phones is filed
\* under its own id field, and that id is stable_phone_id of the entry's
\* brand and model fields.
C30_EntityRecordConsistent ==
    \A db \in Documents :
        \A phone_id \in DOMAIN db.phones :
            /\ db.phones[phone_id].id = phone_id
            /\ phone_id = stable_phone_id(db.phones[phone_id].brand,
                                          db.phones[phone_id].model)

\* C30 witness: a document holds two entries, each under its own id
C30_Witness ==
    \E db \in Documents :
        /\ Cardinality(DOMAIN db.phones) = 2
        /\ \A phone_id \in DOMAIN db.phones : db.phones[phone_id].id = phone_id

-----------------------------------------------------------------------------
(* Partitions of different brands                                           *)

\* the brands of the rows upserted so far
BrandsOf(h) == {h[i].brand : i \in 1..Len(h)}

\* two brand strings that differ by more than case and outer spaces
DistinctBrands(X, Y) == lower(strip(X)) # lower(strip(Y))

\* the file of the partition of brand Y holds the same document in d1 and d2
SamePartition(d1, d2, Y) ==
    \E p \in {fs_name(brand_file_path(Y))} :
        IF p \in DOMAIN d1
        THEN p \in DOMAIN d2 /\ d2[p] = d1[p]
        ELSE p \notin DOMAIN d2

\* C23: the upsert of a row of brand X leaves the partition document of
\* every other brand Y as it was, and every entity of a partition document
\* has the brand of the document.
C23_CrossBrandIndependent ==
    [][hist' # hist =>
          /\ \A Y \in BrandsOf(hist) :
                DistinctBrands(hist'[Len(hist')].brand, Y) => SamePartition(disk, disk', Y)
          /\ \A db \in Documents' :
                \A phone_id \in DOMAIN db.phones :
                    db.phones[phone_id].brand = db.brand]_vars

-----------------------------------------------------------------------------
(* The row cycle of lines 356-374 run by two processes on one OUTPUT_DIR    *)

\* the accepted rows a process can be at: two rows of one phone and a row
\* of another brand
WriterRows ==
    { [brand |-> B_Samsung, model |-> M_Galaxy, attributes |-> <<<<K_ram, V_8GB>>>>],
      [brand |-> B_Samsung, model |-> M_Galaxy, attributes |-> <<<<K_storage, V_128GB>>>>],
      [brand |-> B_Apple, model |-> <<"i","P","h","o","n","e">>,
       attributes |-> <<<<K_ram, V_8GB>>>>] }

\* number of rows each process upserts
MaxWriterRows == 2

InitWriters ==
    /\ MergeIdle /\ IdIdle /\ CanonIdle
    /\ fold_case = FALSE
    /\ disk = EmptyDisk
    /\ LOG_FILE = <<>>
    /\ csv_files = <<>>
    /\ df = NoDf
    /\ bpc = "idle"
    /\ ident = NoIdent
    /\ hist = <<>>
    /\ faults = 0
    /\ batch_runs = 0
    /\ WritersIdle

\* line 356: process w loads the document of the brand of its next row
W_Load(w) ==
    /\ writers[w].pc = "idle"
    /\ writers[w].done < MaxWriterRows
    /\ \E row \in WriterRows :
          writers' = [writers EXCEPT ![w] =
                         [@ EXCEPT !.pc = "loaded", !.row = row,
                                   !.db = load_brand_db(disk, row.brand),
                                   !.seen = Len(hist)]]
    /\ UNCHANGED <<fold_case, disk, LOG_FILE, csv_files, df, bpc, ident, hist, faults,
                   batch_runs>>
    /\ UNCHANGED <<existing, log, resolved, colname, cpc, visited, best, best_score, key,
                   results, runs>>

\* lines 357-374: process w merges its row into the document it loaded and
\* saves the document; the save is stale if a row was saved since the load
W_Save(w) ==
    /\ writers[w].pc = "loaded"
    /\ \E me \in {writers[w]} :
          /\ disk' = save_brand_db(disk, me.row.brand,
                                   merged_into(me.db, me.row.brand, me.row.model,
                                               me.row.attributes))
          /\ hist' = Append(hist, me.row)
          /\ writers' = [writers EXCEPT ![w] =
                            [NoWriter EXCEPT !.done = me.done + 1,
                                             !.stale = me.stale \/ me.seen # Len(hist)]]
    /\ UNCHANGED <<fold_case, LOG_FILE, csv_files, df, bpc, ident, faults, batch_runs>>
    /\ UNCHANGED <<existing, log, resolved, colname, cpc, visited, best, best_score, key,
                   results, runs>>

NextWriters == \E w \in Writers : W_Load(w) \/ W_Save(w)

SpecWriters == InitWriters /\ [][NextWriters]_vars

\* the entity of the row is in the store with every attribute key of the row
Persisted(row) ==
    \E e \in Entities :
        /\ e.id = stable_phone_id(row.brand, row.model)
        /\ \A i \in 1..Len(row.attributes) : row.attributes[i][1] \in DOMAIN e.attributes

\* C24: as long as every save was made on a document loaded after the save
\* before it (one writer at a time, each row's save before the next row's
\* load), the store is the one the saved rows give one after the other and
\* no saved row is lost; the cycle itself does not ensure it, as the state
\* of the witness shows.
C24_NoIsolation ==
    (\A w \in Writers : ~writers[w].stale)
        => /\ disk = Replay(hist)
           /\ \A i \in 1..Len(hist) : Persisted(hist[i])

\* C24 witness: two processes loaded the Samsung document before either
\* saved; both have saved, and the row saved first is no longer in the
\* store
C24_Witness ==
    /\ Len(hist) = 2
    /\ \A w \in Writers : writers[w].pc = "idle" /\ writers[w].done = 1
    /\ \E w \in Writers : writers[w].stale
    /\ hist[1].brand = hist[2].brand
    /\ ~Persisted(hist[1])
    /\ Persisted(hist[2])

====
